---- MODULE Spec2Model ----
(***************************************************************************)
(* A model of tsk: the prefix index (Trie), the "go deeper" phrase matcher *)
(* (findLongestPrefix) and the cross-reference expander (getDeeperGlosses).*)
(* Strings are sequences of code points; a code point is a one-character   *)
(* string.                                                                 *)
(***************************************************************************)
EXTENDS Integers, Sequences, FiniteSets, TLC

VARIABLES
    words,      \* main: the slice returned by loadWords()
    nIns,       \* main: how many words of the slice the build loop has inserted
    nodes,      \* the heap of TrieNode values; nodes[1] is trie.root
    op,         \* the operation that ran last
    text,       \* argument of the last Trie.FindWords call
    matches,    \* return value of the last Trie.FindWords call
    inputText,  \* argument of the last updateList call (the search field)
    list,       \* items of the tview list filled by updateList
    phrases,    \* the slice returned by loadDeeperPhrases()
    deeperPrefixMap,      \* the global key set; {} while it is nil
    deeperPrefixLengths,  \* the global slice of key lengths
    s,          \* argument of the findLongestPrefix call
    found,      \* its return values: [prefix, ok]
    glosses,    \* the map returned by loadGlosses()
    meaning,    \* the text argument of the getDeeperGlosses(text, glosses, 1) call
    deeper,     \* the lines it wrote to its builder
    count,      \* return value of the last Trie.CountNodes call; -1 before it
    stack,      \* the call frames of a FindWords or getDeeperGlosses call in progress
    glossesJsonl,     \* tsk: the lines of the embedded gloss file
    readers,          \* the goroutines that query the built index and store
    marked,           \* main: the keys of the map of marked words
    currentItem,      \* the list's current item, counted from 0
    mainText,         \* the word whose details are shown
    formatted,        \* generateGlossText: the text it returned, piece by piece
    inputFile,        \* makegob: the value of the -in flag
    stdinPiped,       \* makegob: os.Stdin is not a character device
    fs,               \* makegob: the files that can be opened, name -> lines
    stdin,            \* makegob: the lines on standard input
    inputSourceName,  \* makegob: the source main chose; "" before it chose
    gob         \* makegob: what saveGlossesToGob wrote; <<>> before it

indexVars == <<words, nIns, nodes, text, matches, inputText, list>>
matcherVars == <<phrases, deeperPrefixMap, deeperPrefixLengths, s, found>>
expanderVars == <<glosses, meaning, deeper>>
toolVars == <<inputFile, stdinPiped, fs, stdin, inputSourceName, gob>>
uiVars == <<marked, currentItem>>
renderVars == <<mainText, formatted>>
restVars == <<count, stack, glossesJsonl, readers, toolVars, uiVars, renderVars>>

vars == <<op, indexVars, matcherVars, expanderVars, restVars>>

(***************************************************************************)
(* Bounds and program constants                                            *)
(***************************************************************************)
TRIE_MAX_SEARCH_DEPTH == 50

\* longest phrase list drawn from PhraseUniverse
MaxPhrases == 2
\* longest text over TextChars handed to findLongestPrefix
MaxTextLen == 4

\* longest word list drawn from WordUniverse
MaxWords == 3
\* longest word list of the specification with the search field
MaxUIWords == 2
\* the bulk word lists hold up to TRIE_MAX_SEARCH_DEPTH + MaxOver words
MaxOver == 2

\* the code points of headwords, in ascending order
CharSeq == <<"a", "b">>
Chars == {CharSeq[i] : i \in 1..Len(CharSeq)}

WordUniverse ==
    { <<"a">>, <<"b">>, <<"a","a">>, <<"a","b">>, <<"b","a">>, <<"a","b","a">> }

\* the prefixes queried: every leading part of a word, the empty prefix,
\* and a prefix no word has
Prefixes == WordUniverse \cup { <<>>, <<"b","b">> }

(***************************************************************************)
(* Sequence helpers                                                        *)
(***************************************************************************)
Range(q) == { q[i] : i \in 1..Len(q) }

Take(q, k) == SubSeq(q, 1, k)

IsPrefixOf(p, q) == Len(p) <= Len(q) /\ Take(q, Len(p)) = p

Max(S) == CHOOSE x \in S : \A y \in S : y <= x

(***************************************************************************)
(* Trie                                                                    *)
(***************************************************************************)
\* &TrieNode{children: make(map[rune]*TrieNode)}; the empty map is <<>>
newTrieNode == [children |-> <<>>, isEnd |-> FALSE]

\* &Trie{root: newTrieNode()}
NewTrie == <<newTrieNode>>

root == 1

RECURSIVE InsertFrom(_, _, _, _)

\* Insert that allocates a node for every code point without looking the
\* child up first
InsertAlwaysNew(h, node, word, i) ==
    IF i > Len(word)
    THEN [h EXCEPT ![node].isEnd = TRUE]
    ELSE LET new == Len(h) + 1
             h1  == Append([h EXCEPT ![node].children =
                               [c \in (DOMAIN @) \cup {word[i]} |->
                                   IF c = word[i] THEN new ELSE @[c]]],
                           newTrieNode)
         IN  InsertFrom(h1, new, word, i + 1)

\* Insert that sets isEnd on every node it walks through
InsertMarkingPath(h, node, word, i) ==
    IF i > Len(word)
    THEN [h EXCEPT ![node].isEnd = TRUE]
    ELSE LET ch == word[i]
             hm == [h EXCEPT ![node].isEnd = TRUE]
         IN  IF ch \in DOMAIN h[node].children
             THEN InsertFrom(hm, h[node].children[ch], word, i + 1)
             ELSE LET new == Len(h) + 1
                      h1  == Append([hm EXCEPT ![node].children = @ @@ (ch :> new)],
                                    newTrieNode)
                  IN  InsertFrom(h1, new, word, i + 1)

\* One iteration of Insert's loop per code point of word[i..]
InsertFrom(h, node, word, i) ==
    IF i > Len(word)
    THEN [h EXCEPT ![node].isEnd = TRUE]
    ELSE LET ch == word[i]
         IN  IF ch \in DOMAIN h[node].children
             THEN InsertFrom(h, h[node].children[ch], word, i + 1)
             ELSE LET new == Len(h) + 1
                      h1  == Append([h EXCEPT ![node].children = @ @@ (ch :> new)],
                                    newTrieNode)
                  IN  InsertFrom(h1, new, word, i + 1)

Insert(h, word) == InsertFrom(h, root, word, 1)

\* The order in which one `range node.children` visits the keys.  Go leaves
\* it unspecified and varies it from one range statement to the next; here a
\* range starts at any key and goes round in ascending order.  ord gives the
\* start offset used by the ranges at each depth of one FindWords call.
KeyOrder(m, depth, ord) ==
    LET ks == SelectSeq(CharSeq, LAMBDA c : c \in DOMAIN m)
        n  == Len(ks)
    IN  IF n = 0 THEN <<>>
        ELSE [i \in 1..n |-> ks[((i - 1 + ord[depth]) % n) + 1]]

RECURSIVE collectWords(_, _, _, _, _)
RECURSIVE rangeChildren(_, _, _, _, _, _, _)

\* collectWords whose limit tests use > where the code uses >=
collectWordsOffByOne(h, node, prefix, ws, ord) ==
    IF Len(ws) > TRIE_MAX_SEARCH_DEPTH THEN ws
    ELSE LET w1 == IF h[node].isEnd THEN Append(ws, prefix) ELSE ws
         IN  IF h[node].isEnd /\ Len(w1) > TRIE_MAX_SEARCH_DEPTH THEN w1
             ELSE rangeChildren(h, node, prefix, w1, ord,
                                KeyOrder(h[node].children, Len(prefix), ord), 1)

\* collectWords without its own limit tests; only the range loop tests
collectWordsNoLimit(h, node, prefix, ws, ord) ==
    LET w1 == IF h[node].isEnd THEN Append(ws, prefix) ELSE ws
    IN  rangeChildren(h, node, prefix, w1, ord,
                      KeyOrder(h[node].children, Len(prefix), ord), 1)

\* collectWords that visits the children before it appends the node's path
collectWordsChildrenFirst(h, node, prefix, ws, ord) ==
    IF Len(ws) >= TRIE_MAX_SEARCH_DEPTH THEN ws
    ELSE LET w1 == rangeChildren(h, node, prefix, ws, ord,
                                 KeyOrder(h[node].children, Len(prefix), ord), 1)
         IN  IF h[node].isEnd /\ Len(w1) < TRIE_MAX_SEARCH_DEPTH
             THEN Append(w1, prefix)
             ELSE w1

\* collectWords that appends the path of every node, terminal or not
collectWordsEveryNode(h, node, prefix, ws, ord) ==
    IF Len(ws) >= TRIE_MAX_SEARCH_DEPTH THEN ws
    ELSE LET w1 == Append(ws, prefix)
         IN  IF Len(w1) >= TRIE_MAX_SEARCH_DEPTH THEN w1
             ELSE rangeChildren(h, node, prefix, w1, ord,
                                KeyOrder(h[node].children, Len(prefix), ord), 1)

\* a range loop that returns after its first iteration, whatever the count
rangeChildrenFirstOnly(h, node, prefix, ws, ord, ks, i) ==
    IF i > Len(ks) THEN ws
    ELSE collectWords(h, h[node].children[ks[i]], prefix \o <<ks[i]>>, ws, ord)

\* the `for ch, child := range node.children` loop, from the i-th key on
rangeChildren(h, node, prefix, ws, ord, ks, i) ==
    IF i > Len(ks) THEN ws
    ELSE LET ch == ks[i]
             w2 == collectWords(h, h[node].children[ch], prefix \o <<ch>>, ws, ord)
         IN  IF Len(w2) >= TRIE_MAX_SEARCH_DEPTH THEN w2
             ELSE rangeChildren(h, node, prefix, w2, ord, ks, i + 1)

collectWords(h, node, prefix, ws, ord) ==
    IF Len(ws) >= TRIE_MAX_SEARCH_DEPTH THEN ws
    ELSE LET w1 == IF h[node].isEnd THEN Append(ws, prefix) ELSE ws
         IN  IF h[node].isEnd /\ Len(w1) >= TRIE_MAX_SEARCH_DEPTH THEN w1
             ELSE rangeChildren(h, node, prefix, w1, ord,
                                KeyOrder(h[node].children, Len(prefix), ord), 1)

\* FindWords' walk down the prefix: the node reached, or 0 when a child is missing
RECURSIVE WalkFrom(_, _, _, _)
WalkFrom(h, node, prefix, i) ==
    IF i > Len(prefix) THEN node
    ELSE IF prefix[i] \in DOMAIN h[node].children
         THEN WalkFrom(h, h[node].children[prefix[i]], prefix, i + 1)
         ELSE 0

\* FindWords that ranges over the children of the prefix node without
\* visiting the prefix node itself
FindWordsBelow(h, prefix, ord) ==
    LET node == WalkFrom(h, root, prefix, 1)
    IN  IF node = 0 THEN <<>>
        ELSE rangeChildren(h, node, prefix, <<>>, ord,
                           KeyOrder(h[node].children, Len(prefix), ord), 1)

FindWords(h, prefix, ord) ==
    LET node == WalkFrom(h, root, prefix, 1)
    IN  IF node = 0 THEN <<>>
        ELSE collectWords(h, node, prefix, <<>>, ord)

\* FindWords that walks the prefix the way Insert does, making the nodes
\* it does not find
HeapAfterInsertingWalk(h, prefix) == Insert(h, prefix)

\* the heap after FindWords(prefix): FindWords and collectWords assign to
\* their locals and to *words, never to a node
HeapAfterFindWords(h, prefix) == h

\* the heap after CountNodes(): traverse assigns to count only
HeapAfterCountNodes(h) == h

RECURSIVE traverse(_, _)
traverse(h, node) ==
    LET RECURSIVE sum(_)
        sum(S) == IF S = {} THEN 0
                  ELSE LET c == CHOOSE c \in S : TRUE
                       IN  traverse(h, h[node].children[c]) + sum(S \ {c})
    IN  1 + sum(DOMAIN h[node].children)

\* CountNodes that starts at the children of the root
CountNodesBelowRoot(h) == traverse(h, root) - 1

CountNodes(h) == traverse(h, root)

(***************************************************************************)
(* Word lists                                                              *)
(***************************************************************************)
\* k >= 0 written over CharSeq in bijective numeration: <<>>, a, b, aa, ab, ...
RECURSIVE Numeral(_)
Numeral(k) ==
    IF k = 0 THEN <<>>
    ELSE LET b == Len(CharSeq)
             d == ((k - 1) % b) + 1
         IN  Append(Numeral((k - d) \div b), CharSeq[d])

\* n distinct words that all start with "a"
BulkWords(n) == [k \in 1..n |-> <<"a">> \o Numeral(k - 1)]

SeqsUpTo(S, n) == UNION { [1..k -> S] : k \in 0..n }

SmallLists == SeqsUpTo(WordUniverse, MaxWords)

BulkLists ==
    { BulkWords(n) : n \in (TRIE_MAX_SEARCH_DEPTH - 1)..(TRIE_MAX_SEARCH_DEPTH + MaxOver) }

\* the words inserted so far
Inserted == { words[i] : i \in 1..nIns }

\* the orders one FindWords call may draw: a start offset for each depth
Depth == IF words = <<>> THEN 0 ELSE Max({ Len(words[i]) : i \in 1..Len(words) })
Orders == [0..(Depth - 1) -> 0..(Len(CharSeq) - 1)]

(***************************************************************************)
(* Actions                                                                 *)
(***************************************************************************)
\* main before loadWords has anything to insert
IndexIdle ==
    /\ nIns = 0
    /\ nodes = NewTrie
    /\ text = <<>>
    /\ matches = <<>>
    /\ inputText = <<>>
    /\ list = <<>>

\* the globals before initDeeperPrefixes: a nil map, a nil slice
MatcherIdle ==
    /\ deeperPrefixMap = {}
    /\ deeperPrefixLengths = <<>>
    /\ s = <<>>
    /\ found = [prefix |-> <<>>, ok |-> FALSE]

ExpanderIdle ==
    /\ meaning = <<>>
    /\ deeper = <<>>

\* makegob has not been started
ToolIdle ==
    /\ inputFile = ""
    /\ stdinPiped = FALSE
    /\ fs = <<>>
    /\ stdin = <<>>
    /\ inputSourceName = ""
    /\ gob = <<>>

\* no word marked, the list at its first item
UiIdle ==
    /\ marked = {}
    /\ currentItem = 0

\* no word's details rendered yet
RenderIdle ==
    /\ mainText = <<>>
    /\ formatted = <<>>

\* no call in progress, nothing counted, no gloss file looked at
RestIdle ==
    /\ count = -1
    /\ stack = <<>>
    /\ glossesJsonl = <<>>
    /\ readers = <<>>
    /\ ToolIdle
    /\ UiIdle
    /\ RenderIdle

InitIndex(lists) ==
    /\ words \in lists
    /\ IndexIdle
    /\ op = "NewTrie"
    /\ phrases = <<>> /\ MatcherIdle
    /\ glosses = <<>> /\ ExpanderIdle
    /\ RestIdle

Init == InitIndex(SmallLists \cup BulkLists)

\* main: one iteration of `for _, word := range words { trie.Insert(word) }`
DoInsert ==
    /\ nIns < Len(words)
    /\ nodes' = Insert(nodes, words[nIns + 1])
    /\ nIns' = nIns + 1
    /\ op' = "Insert"
    /\ UNCHANGED <<words, text, matches, inputText, list, matcherVars, expanderVars,
                   restVars>>

\* a call trie.FindWords(prefix) on the built index
DoFindWords ==
    /\ nIns = Len(words)
    /\ \E prefix \in Prefixes, ord \in Orders :
         /\ text' = prefix
         /\ matches' = FindWords(nodes, prefix, ord)
         /\ nodes' = HeapAfterFindWords(nodes, prefix)
    /\ op' = "FindWords"
    /\ UNCHANGED <<words, nIns, inputText, list, matcherVars, expanderVars,
                   restVars>>

\* a call trie.CountNodes() on the built index
DoCountNodes ==
    /\ nIns = Len(words)
    /\ count' = CountNodes(nodes)
    /\ nodes' = HeapAfterCountNodes(nodes)
    /\ op' = "CountNodes"
    /\ UNCHANGED <<words, nIns, text, matches, inputText, list, matcherVars,
                   expanderVars, stack, glossesJsonl, readers, toolVars, uiVars, renderVars>>

Next == DoInsert \/ DoFindWords

Spec == Init /\ [][Next]_vars

(***************************************************************************)
(* The search field: updateList                                            *)
(***************************************************************************)
\* updateList without its `if text == ""` return
updateListNoGuard(h, t, ord) == FindWords(h, t, ord)

\* the items updateList(t) leaves in the list
updateList(h, t, ord) ==
    IF t = <<>> THEN <<>> ELSE FindWords(h, t, ord)

\* inputField's changed handler: updateList(t)
DoUpdateList ==
    /\ nIns = Len(words)
    /\ \E t \in Prefixes, ord \in Orders :
         /\ inputText' = t
         /\ list' = updateList(nodes, t, ord)
         /\ IF t = <<>>
            THEN UNCHANGED <<text, matches>>
            ELSE text' = t /\ matches' = list'
    /\ currentItem' = 0
    /\ op' = "updateList"
    /\ UNCHANGED <<words, nIns, nodes, matcherVars, expanderVars, count, stack,
                   glossesJsonl, readers, toolVars, marked, renderVars>>

InitUI == InitIndex(SeqsUpTo(WordUniverse, MaxUIWords))

NextUI == DoInsert \/ DoFindWords \/ DoUpdateList

SpecUI == InitUI /\ [][NextUI]_vars

(***************************************************************************)
(* Properties of the prefix index                                          *)
(***************************************************************************)
Min(a, b) == IF a <= b THEN a ELSE b

\* the inserted headwords that start with p
Sharing(p) == { w \in Inserted : IsPrefixOf(p, w) }

NoRepeat(q) == Cardinality(Range(q)) = Len(q)

\* C1: FindWords never returns more than 50 entries, whatever the index
\* and the prefix.
C1_AtMostCap ==
    op = "FindWords" => Len(matches) <= TRIE_MAX_SEARCH_DEPTH

\* C1 witness: a query whose prefix more than 50 headwords share, cut at 50.
C1_Witness ==
    /\ op = "FindWords"
    /\ Cardinality(Sharing(text)) > TRIE_MAX_SEARCH_DEPTH
    /\ Len(matches) = TRIE_MAX_SEARCH_DEPTH

\* C2 (as claimed): FindWords("") itself returns the empty sequence for
\* every index.
C2_EmptyPrefixEmpty ==
    (op = "FindWords" /\ text = <<>>) => matches = <<>>

\* C2 (amended): updateList("") leaves the list empty for every index, the
\* caller returning before it queries; FindWords("") itself enumerates from
\* the root: it returns stored headwords, and is empty only when the index
\* holds no headword.
C2_EmptyTextFilteredByCaller ==
    /\ (op = "updateList" /\ inputText = <<>>) => list = <<>>
    /\ (op = "FindWords" /\ text = <<>>) =>
          /\ Range(matches) \subseteq Inserted
          /\ (matches = <<>> <=> Inserted = {})

\* C2 witness: FindWords("") has returned headwords, and updateList("")
\* then showed an empty list over the same index.
C2_Witness ==
    /\ op = "updateList" /\ inputText = <<>> /\ list = <<>>
    /\ text = <<>> /\ matches # <<>>

\* C3: for an inserted headword W and a non-empty leading part P of W,
\* FindWords(P) contains W, unless it returned 50 other stored headwords
\* that share P.
C3_ContainsUnlessCapped ==
    (op = "FindWords" /\ text # <<>>) =>
        \A W \in Sharing(text) :
            \/ W \in Range(matches)
            \/ /\ Len(matches) = TRIE_MAX_SEARCH_DEPTH
               /\ NoRepeat(matches)
               /\ Range(matches) \subseteq Sharing(text) \ {W}

\* C3 witness: a query for the whole headword W = P that finds it, W being
\* a leading part of a longer headword as well.
C3_Witness ==
    /\ op = "FindWords" /\ text # <<>>
    /\ text \in Inserted /\ text \in Range(matches)
    /\ \E W \in Sharing(text) : W # text /\ W \in Range(matches)

\* C4: every string FindWords returns was inserted and starts with the
\* prefix; a string that was never inserted is never returned.
C4_OnlyInserted ==
    op = "FindWords" =>
        \A i \in 1..Len(matches) :
            matches[i] \in Inserted /\ IsPrefixOf(text, matches[i])

\* C4 witness: a non-empty result from a subtree that holds a node whose
\* path was never inserted (a longer word passes through it).
C4_Witness ==
    /\ op = "FindWords" /\ matches # <<>>
    /\ \E w \in Range(matches) : \E k \in 1..(Len(w) - 1) :
          Take(w, k) \notin Inserted /\ IsPrefixOf(text, Take(w, k))

\* C5: for a non-empty prefix that at most 50 inserted headwords share,
\* FindWords returns exactly those headwords; when none shares it the result
\* is the empty sequence.
C5_ExactWhenWithinCap ==
    (op = "FindWords" /\ text # <<>>
        /\ Cardinality(Sharing(text)) <= TRIE_MAX_SEARCH_DEPTH) =>
        /\ Range(matches) = Sharing(text)
        /\ (Sharing(text) = {} => matches = <<>>)

\* C5 witness: a prefix that exactly 50 headwords share, in an index that
\* also holds the kind of query that misses.
C5_Witness ==
    /\ op = "FindWords" /\ text # <<>>
    /\ Cardinality(Sharing(text)) = TRIE_MAX_SEARCH_DEPTH
    /\ Len(matches) = TRIE_MAX_SEARCH_DEPTH

\* C5 witness of the miss: a prefix no headword has, over a non-empty index.
C5_MissWitness ==
    /\ op = "FindWords" /\ text # <<>> /\ Inserted # {}
    /\ Sharing(text) = {} /\ matches = <<>>

\* C6: inserting a word that is already stored leaves the index as it was:
\* the same nodes, children and terminal flags, the same CountNodes.
C6_InsertIdempotent ==
    [][ (nIns' = nIns + 1 /\ words[nIns + 1] \in Inserted) =>
            /\ nodes' = nodes
            /\ CountNodes(nodes') = CountNodes(nodes) ]_vars

\* C6 witness: the build loop has just inserted a word it had inserted before.
C6_Witness ==
    /\ op = "Insert" /\ nIns >= 2
    /\ words[nIns] \in { words[i] : i \in 1..(nIns - 1) }

\* C7: two FindWords calls with the same prefix on the same index return
\* the same sequence.
C7_RepeatedCallSameSequence ==
    [][ (op = "FindWords" /\ op' = "FindWords" /\ text' = text /\ nodes' = nodes) =>
            matches' = matches ]_vars

(***************************************************************************)
(* Phrase matcher: initDeeperPrefixes, findLongestPrefix                   *)
(***************************************************************************)
\* unicode.IsSpace, for the code points the model uses
WhiteSpace == {" ", "\t"}

\* the code points outside ASCII that the model uses: a with diaeresis
TwoByteChars == {"U+00E4"}

\* the number of bytes of the UTF-8 encoding of a code point
Utf8Width(c) == IF c \in TwoByteChars THEN 2 ELSE 1

\* len(str) of a Go string: its length in bytes
RECURSIVE ByteLen(_)
ByteLen(str) == IF str = <<>> THEN 0 ELSE Utf8Width(Head(str)) + ByteLen(Tail(str))

\* strings.Fields: the maximal runs of non-space code points, in order
RECURSIVE FieldsFrom(_, _, _, _)
FieldsFrom(str, i, cur, acc) ==
    IF i > Len(str)
    THEN IF cur = <<>> THEN acc ELSE Append(acc, cur)
    ELSE IF str[i] \in WhiteSpace
         THEN FieldsFrom(str, i + 1, <<>>, IF cur = <<>> THEN acc ELSE Append(acc, cur))
         ELSE FieldsFrom(str, i + 1, Append(cur, str[i]), acc)

Fields(str) == FieldsFrom(str, 1, <<>>, <<>>)

\* strings.Join(elems, sep)
RECURSIVE Join(_, _)
Join(elems, sep) ==
    IF elems = <<>> THEN <<>>
    ELSE IF Len(elems) = 1 THEN elems[1]
         ELSE elems[1] \o sep \o Join(Tail(elems), sep)

\* sort.Sort(sort.Reverse(sort.IntSlice(..))) of the keys of lengthSet
RECURSIVE SortDesc(_)
SortDesc(S) == IF S = {} THEN <<>> ELSE <<Max(S)>> \o SortDesc(S \ {Max(S)})

\* the key set initDeeperPrefixes builds from the phrases
PrefixMapOf(ps) == { ps[i] \o <<" ">> : i \in 1..Len(ps) }

RECURSIVE SortAsc(_)
SortAsc(S) == IF S = {} THEN <<>> ELSE SortAsc(S \ {Max(S)}) \o <<Max(S)>>

\* the slice sorted by sort.Sort(sort.IntSlice(..)), without sort.Reverse
PrefixLengthsAscending(ps) == SortAsc({ ByteLen(ps[i] \o <<" ">>) : i \in 1..Len(ps) })

\* the slice of distinct key lengths it builds, len(key) being a byte count
PrefixLengthsOf(ps) == SortDesc({ ByteLen(ps[i] \o <<" ">>) : i \in 1..Len(ps) })

\* the candidate made of the first i words
Candidate(ws, i) == Join(Take(ws, i), <<" ">>) \o <<" ">>

\* a matcher that tries the fewest words first
RECURSIVE ShortestFrom(_, _, _)
ShortestFrom(map, ws, i) ==
    IF i > Len(ws) THEN [prefix |-> <<>>, ok |-> FALSE]
    ELSE IF Candidate(ws, i) \in map
         THEN [prefix |-> Candidate(ws, i), ok |-> TRUE]
         ELSE ShortestFrom(map, ws, i + 1)

findShortestPrefix(map, str) == ShortestFrom(map, Fields(str), 1)

\* a matcher that compares the phrases with the leading code points of the
\* text, without looking for the end of a word
findRawPrefix(map, str) ==
    LET hits == { k \in map : IsPrefixOf(Take(k, Len(k) - 1), str) }
    IN  IF hits = {} THEN [prefix |-> <<>>, ok |-> FALSE]
        ELSE [prefix |-> CHOOSE k \in hits : \A j \in hits : Len(j) <= Len(k),
              ok |-> TRUE]

\* the loop `for i := len(words); i > 0; i--`
RECURSIVE LongestFrom(_, _, _)
LongestFrom(map, ws, i) ==
    IF i <= 0 THEN [prefix |-> <<>>, ok |-> FALSE]
    ELSE IF Candidate(ws, i) \in map
         THEN [prefix |-> Candidate(ws, i), ok |-> TRUE]
         ELSE LongestFrom(map, ws, i - 1)

findLongestPrefix(map, str) ==
    LET ws == Fields(str) IN LongestFrom(map, ws, Len(ws))

\* the key set after findLongestPrefix(str): the candidates are looked up
\* with the two-value index expression, which adds no key
KeysAfterFindLongestPrefix(map, str) == map

\* the code points of the texts and phrases the matcher is tried on
TextChars == {"s", "o", " ", "\t"}

See == <<"s","e","e">>
SeeAlso == <<"s","e","e"," ","a","l","s","o">>
SeeAlsoTheManual == SeeAlso \o <<" ","t","h","e"," ","m","a","n","u","a","l">>
Seesaw == <<"s","e","e","s","a","w">>

\* "s" followed by a with diaeresis: two code points, three bytes
SAe == <<"s","U+00E4">>

PhraseUniverse == { <<"s">>, <<"s"," ","o">>, <<"o">>, <<"s","o">>, See, SeeAlso, SAe }

Texts == SeqsUpTo(TextChars, MaxTextLen) \cup { SeeAlsoTheManual, Seesaw, SeeAlso }

InitMatcher ==
    /\ phrases \in SeqsUpTo(PhraseUniverse, MaxPhrases)
    /\ s \in Texts
    /\ deeperPrefixMap = {}
    /\ deeperPrefixLengths = <<>>
    /\ found = [prefix |-> <<>>, ok |-> FALSE]
    /\ op = "loadDeeperPhrases"
    /\ words = <<>> /\ IndexIdle
    /\ glosses = <<>> /\ ExpanderIdle
    /\ RestIdle

\* main: initDeeperPrefixes()
DoInitDeeperPrefixes ==
    /\ op \in {"loadDeeperPhrases", "loadGlosses"}
    /\ deeperPrefixMap' = PrefixMapOf(phrases)
    /\ deeperPrefixLengths' = deeperPrefixLengths \o PrefixLengthsOf(phrases)
    /\ op' = "initDeeperPrefixes"
    /\ UNCHANGED <<phrases, s, found, indexVars, expanderVars, restVars>>

\* a call findLongestPrefix(s) once the globals are built
DoFindLongestPrefix ==
    /\ op = "initDeeperPrefixes"
    /\ found' = findLongestPrefix(deeperPrefixMap, s)
    /\ deeperPrefixMap' = KeysAfterFindLongestPrefix(deeperPrefixMap, s)
    /\ op' = "findLongestPrefix"
    /\ UNCHANGED <<phrases, deeperPrefixLengths, s, indexVars, expanderVars, restVars>>

NextMatcher == DoInitDeeperPrefixes \/ DoFindLongestPrefix

SpecMatcher == InitMatcher /\ [][NextMatcher]_vars

(***************************************************************************)
(* Properties of the phrase matcher                                        *)
(***************************************************************************)
\* the numbers k such that the first k words of str, joined by single
\* spaces and followed by a space, are a key
KeyCounts(str) ==
    { k \in 1..Len(Fields(str)) : Candidate(Fields(str), k) \in deeperPrefixMap }

\* C8: findLongestPrefix returns the key made of the largest number of
\* leading words of the text that is in the key set, and reports no match
\* when there is none; with "see" and "see also" both phrases,
\* "see also the manual" gives "see also " and not "see ".
C8_MostWordsWins ==
    op = "findLongestPrefix" =>
        /\ IF KeyCounts(s) = {}
           THEN ~found.ok
           ELSE found.ok /\ found.prefix = Candidate(Fields(s), Max(KeyCounts(s)))
        /\ (s = SeeAlsoTheManual /\ {See, SeeAlso} \subseteq Range(phrases)) =>
              found = [prefix |-> SeeAlso \o <<" ">>, ok |-> TRUE]

\* C8 witness: the scenario of the claim, both phrases present.
C8_Witness ==
    /\ op = "findLongestPrefix"
    /\ s = SeeAlsoTheManual
    /\ {See, SeeAlso} \subseteq Range(phrases)
    /\ found.ok

\* C9: a reported key is the first k words of the text joined by single
\* spaces, plus a space, for some k >= 1; a phrase that the text starts with
\* but that ends inside a word of the text is not reported: with "see" a
\* phrase, "seesaw" is not matched.
C9_WordBoundaries ==
    op = "findLongestPrefix" =>
        /\ found.ok =>
             LET P == Take(found.prefix, Len(found.prefix) - 1)
             IN  /\ found.prefix \in deeperPrefixMap
                 /\ \E k \in 1..Len(Fields(s)) :
                       P = Join(Take(Fields(s), k), <<" ">>)
                 /\ IsPrefixOf(P, s) =>
                       (Len(s) = Len(P) \/ s[Len(P) + 1] \in WhiteSpace)
        /\ s = Seesaw => ~found.ok

\* C9 witness: "see" is a phrase and findLongestPrefix("seesaw") has run.
C9_Witness ==
    /\ op = "findLongestPrefix"
    /\ s = Seesaw
    /\ See \in Range(phrases)
    /\ ~found.ok

(***************************************************************************)
(* Lexeme store and cross-reference expander: loadGlosses, getDeeperGlosses *)
(***************************************************************************)
RECURSIVE loadGlossesFrom(_, _, _)

\* the loop with glosses[g.Word] = append([]Gloss{g}, glosses[g.Word]...)
loadGlossesPrepending(recs, i, m) ==
    IF i > Len(recs) THEN m
    ELSE LET g == recs[i]
             old == IF g.Word \in DOMAIN m THEN m[g.Word] ELSE <<>>
         IN  loadGlossesFrom(recs, i + 1,
                 [w \in (DOMAIN m) \cup {g.Word} |->
                     IF w = g.Word THEN <<g>> \o old ELSE m[w]])

\* loadGlosses: glosses[g.Word] = append(glosses[g.Word], g), record by record
loadGlossesFrom(recs, i, m) ==
    IF i > Len(recs) THEN m
    ELSE LET g == recs[i]
             old == IF g.Word \in DOMAIN m THEN m[g.Word] ELSE <<>>
         IN  loadGlossesFrom(recs, i + 1,
                 [w \in (DOMAIN m) \cup {g.Word} |->
                     IF w = g.Word THEN Append(old, g) ELSE m[w]])

loadGlosses(recs) == loadGlossesFrom(recs, 1, <<>>)

\* strings.TrimPrefix
TrimPrefix(str, prefix) ==
    IF IsPrefixOf(prefix, str) THEN SubSeq(str, Len(prefix) + 1, Len(str)) ELSE str

\* strings.TrimRight(str, cutset)
RECURSIVE TrimRight(_, _)
TrimRight(str, cutset) ==
    IF str # <<>> /\ str[Len(str)] \in cutset
    THEN TrimRight(SubSeq(str, 1, Len(str) - 1), cutset)
    ELSE str

RECURSIVE TrimLeft(_, _)
TrimLeft(str, cutset) ==
    IF str # <<>> /\ Head(str) \in cutset THEN TrimLeft(Tail(str), cutset) ELSE str

\* strings.TrimSpace
TrimSpace(str) == TrimRight(TrimLeft(str, WhiteSpace), WhiteSpace)

\* strings.Index(str, c) for a one-code-point c, 0-based; -1 when absent
Index(str, c) ==
    IF \E i \in 1..Len(str) : str[i] = c
    THEN (CHOOSE i \in 1..Len(str) : str[i] = c /\ \A j \in 1..(i - 1) : str[j] # c) - 1
    ELSE -1

Punctuation == {".", ",", ":", ";", "!", "?"}

\* extractTarget without its strings.TrimRight(..., ".,:;!?")
extractTargetKeepPunctuation(mng, prefix) ==
    LET t0 == TrimSpace(TrimPrefix(mng, prefix))
        t1 == IF Index(t0, "(") # -1 THEN TrimSpace(Take(t0, Index(t0, "("))) ELSE t0
        t2 == IF Index(t1, ";") # -1 THEN TrimSpace(Take(t1, Index(t1, ";"))) ELSE t1
    IN  t2

\* getDeeperGlosses' local helper
extractTarget(mng, prefix) ==
    LET t0 == TrimRight(TrimSpace(TrimPrefix(mng, prefix)), Punctuation)
        t1 == IF Index(t0, "(") # -1 THEN TrimSpace(Take(t0, Index(t0, "("))) ELSE t0
        t2 == IF Index(t1, ";") # -1 THEN TrimSpace(Take(t1, Index(t1, ";"))) ELSE t1
    IN  t2

\* one line written to the builder: the format of its level, and the
\* arguments handed to fmt.Sprintf
GlossLine(level, tg) == [fmt |-> "gloss", level |-> level, a |-> tg.Word, b |-> tg.Pos]
MeaningLine(level, tm) == [fmt |-> "meaning", level |-> level, a |-> tm, b |-> <<>>]

RECURSIVE getDeeperGlosses(_, _, _)
RECURSIVE rangeMeanings(_, _, _, _)
RECURSIVE rangeTargetGlosses(_, _, _)

\* getDeeperGlosses that stops one level later
getDeeperGlossesThreeLevels(txt, g, level) ==
    IF level > 3 THEN <<>>
    ELSE LET r == findLongestPrefix(deeperPrefixMap, txt)
         IN  IF ~r.ok THEN <<>>
             ELSE LET target == extractTarget(txt, r.prefix)
                  IN  IF target \in DOMAIN g
                      THEN rangeTargetGlosses(g[target], g, level)
                      ELSE <<>>

\* getDeeperGlosses that cleans the text and looks it up whether or not a
\* phrase was found
getDeeperGlossesIgnoreFound(txt, g, level) ==
    IF level > 2 THEN <<>>
    ELSE LET r == findLongestPrefix(deeperPrefixMap, txt)
             target == extractTarget(txt, r.prefix)
         IN  IF target \in DOMAIN g
             THEN rangeTargetGlosses(g[target], g, level)
             ELSE <<>>

\* getDeeperGlosses that writes a line for a target it does not find, as
\* generateGlossText does for a word without glosses
getDeeperGlossesNoGlossLine(txt, g, level) ==
    IF level > 2 THEN <<>>
    ELSE LET r == findLongestPrefix(deeperPrefixMap, txt)
         IN  IF ~r.ok THEN <<>>
             ELSE LET target == extractTarget(txt, r.prefix)
                  IN  IF target \in DOMAIN g /\ g[target] # <<>>
                      THEN rangeTargetGlosses(g[target], g, level)
                      ELSE <<MeaningLine(level, <<"No gloss available.">>)>>

\* the range over the meanings with the two writes of its body exchanged
rangeMeaningsDeeperFirst(ms, i, g, level) ==
    IF i > Len(ms) THEN <<>>
    ELSE getDeeperGlosses(ms[i], g, level + 1)
         \o <<MeaningLine(level, ms[i])>>
         \o rangeMeanings(ms, i + 1, g, level)

\* `for _, tm := range tg.Meanings`, from the i-th meaning on
rangeMeanings(ms, i, g, level) ==
    IF i > Len(ms) THEN <<>>
    ELSE <<MeaningLine(level, ms[i])>>
         \o getDeeperGlosses(ms[i], g, level + 1)
         \o rangeMeanings(ms, i + 1, g, level)

\* `for _, tg := range targetGlosses`
rangeTargetGlosses(tgs, g, level) ==
    IF tgs = <<>> THEN <<>>
    ELSE <<GlossLine(level, Head(tgs))>>
         \o rangeMeanings(Head(tgs).Meanings, 1, g, level)
         \o rangeTargetGlosses(Tail(tgs), g, level)

getDeeperGlosses(txt, g, level) ==
    IF level > 2 THEN <<>>
    ELSE LET r == findLongestPrefix(deeperPrefixMap, txt)
         IN  IF ~r.ok THEN <<>>
             ELSE LET target == extractTarget(txt, r.prefix)
                  IN  IF target \in DOMAIN g
                      THEN rangeTargetGlosses(g[target], g, level)
                      ELSE <<>>

\* the store after getDeeperGlosses(txt, g, 1): glosses[target] is read
\* with the two-value index expression, and the entries are only ranged over
StoreAfterGetDeeperGlosses(g, txt) == g

\* the headwords of the stores the expander is tried on
HeadSeq == << <<"A">>, <<"B">>, <<"C">>, <<"D">> >>
Heads == Range(HeadSeq)

\* the reference phrase, and a meaning that refers to headword H
Of == <<"o","f">>
RefTo(H) == Of \o <<" ">> \o H

MeaningUniverse ==
    { <<"x">> } \cup { RefTo(H) : H \in Heads } \cup { RefTo(<<"B">>) \o <<".">> }

\* the texts the expander is called on: the meanings, a bare headword, and
\* texts with no word in them
ExpandTexts ==
    MeaningUniverse \cup { <<"B">>, <<>>, <<" ">>, <<" ", "\t">> }

\* what the gloss file may hold for one headword: nothing, or one record
RecordChoices(H) ==
    { <<>> }
    \cup { << [Word |-> H, Pos |-> "n", Meanings |-> <<m>>] >> : m \in MeaningUniverse }
    \cup { << [Word |-> H, Pos |-> "v", Meanings |-> << <<"x">>, RefTo(<<"C">>) >>] >> }

GlossFiles ==
    { c[1] \o c[2] \o c[3] \o c[4] :
        c \in { f \in [1..4 -> UNION { RecordChoices(H) : H \in Heads }] :
                  \A i \in 1..4 : f[i] \in RecordChoices(HeadSeq[i]) } }

InitExpander ==
    /\ glosses \in { loadGlosses(recs) : recs \in GlossFiles }
    /\ meaning \in ExpandTexts
    /\ deeper = <<>>
    /\ phrases \in { <<>>, <<Of>> }
    /\ deeperPrefixMap = PrefixMapOf(phrases)
    /\ deeperPrefixLengths = PrefixLengthsOf(phrases)
    /\ s = <<>>
    /\ found = [prefix |-> <<>>, ok |-> FALSE]
    /\ op = "initDeeperPrefixes"
    /\ words = <<>> /\ IndexIdle
    /\ RestIdle

\* generateGlossText's call getDeeperGlosses(meaning, glosses, 1)
DoGetDeeperGlosses ==
    /\ op = "initDeeperPrefixes"
    /\ deeper' = getDeeperGlosses(meaning, glosses, 1)
    /\ glosses' = StoreAfterGetDeeperGlosses(glosses, meaning)
    /\ op' = "getDeeperGlosses"
    /\ UNCHANGED <<meaning, indexVars, matcherVars, restVars>>

NextExpander == DoGetDeeperGlosses

SpecExpander == InitExpander /\ [][NextExpander]_vars

(***************************************************************************)
(* Properties of the expander                                              *)
(***************************************************************************)
\* the headwords a text refers to: the cleaned target after a matched phrase
TargetsOf(txt) ==
    LET r == findLongestPrefix(deeperPrefixMap, txt)
    IN  IF r.ok THEN {extractTarget(txt, r.prefix)} ELSE {}

\* the meanings stored under the headwords of W
MeaningsOf(W) ==
    UNION { UNION { Range(glosses[w][i].Meanings) : i \in 1..Len(glosses[w]) } :
              w \in W \cap DOMAIN glosses }

\* the headwords whose entries were emitted at a level
EmittedAt(level) ==
    { deeper[i].a : i \in { j \in 1..Len(deeper) :
                              deeper[j].fmt = "gloss" /\ deeper[j].level = level } }

\* C10: the expansion of a meaning at depth 1 emits the entries of the
\* headword it refers to at depth 1, the entries of the headwords those
\* entries' meanings refer to at depth 2, and nothing deeper: for a chain
\* A -> B -> C -> D it emits B's and C's entries and never D's.
C10_TwoLevels ==
    op = "getDeeperGlosses" =>
        /\ \A i \in 1..Len(deeper) : deeper[i].level \in {1, 2}
        /\ EmittedAt(1) = TargetsOf(meaning) \cap DOMAIN glosses
        /\ EmittedAt(2) =
             UNION { TargetsOf(m) : m \in MeaningsOf(TargetsOf(meaning)) }
                \cap DOMAIN glosses
        /\ ( /\ meaning = RefTo(<<"B">>)
             /\ {<<"B">>, <<"C">>, <<"D">>} \subseteq DOMAIN glosses
             /\ MeaningsOf({<<"B">>}) = {RefTo(<<"C">>)}
             /\ MeaningsOf({<<"C">>}) = {RefTo(<<"D">>)}
             /\ phrases = <<Of>> ) =>
               /\ EmittedAt(1) = {<<"B">>}
               /\ EmittedAt(2) = {<<"C">>}
               /\ \A i \in 1..Len(deeper) :
                     deeper[i].fmt = "gloss" => deeper[i].a # <<"D">>

\* C10 witness: the chain "of B" -> B: "of C" -> C: "of D" -> D has been
\* expanded from its first meaning.
C10_Witness ==
    /\ op = "getDeeperGlosses"
    /\ phrases = <<Of>>
    /\ meaning = RefTo(<<"B">>)
    /\ {<<"B">>, <<"C">>, <<"D">>} \subseteq DOMAIN glosses
    /\ MeaningsOf({<<"B">>}) = {RefTo(<<"C">>)}
    /\ MeaningsOf({<<"C">>}) = {RefTo(<<"D">>)}
    /\ MeaningsOf({<<"D">>}) = {<<"x">>}
    /\ Len(deeper) = 4

(***************************************************************************)
(* One call, statement by statement: the frames of a FindWords call and of *)
(* a getDeeperGlosses call                                                 *)
(***************************************************************************)
\* the frames a goroutine's stack holds; a call that needs more never returns
MaxStack == 8

\* longest word list of the indexes the stepped calls run on
MaxStepWords == 2

\* main's build loop run to its end
RECURSIVE BuildFrom(_, _, _)
BuildFrom(h, ws, i) ==
    IF i > Len(ws) THEN h ELSE BuildFrom(Insert(h, ws[i]), ws, i + 1)

BuildTrie(ws) == BuildFrom(NewTrie, ws, 1)

\* getDeeperGlosses' base case
LevelUnbounded(level) == FALSE

LevelCapped(level) == level > 2

\* the frame of generateGlossText around its getDeeperGlosses(meaning, glosses, 1)
CallerFrame == [fn |-> "generateGlossText", builder |-> <<>>]

\* a getDeeperGlosses(txt, glosses, level) call that has just been entered
ExpFrame(txt, level) ==
    [fn |-> "getDeeperGlosses", txt |-> txt, level |-> level, pc |-> "entry",
     builder |-> <<>>, targetGlosses |-> <<>>, gi |-> 0, mi |-> 0]

\* `return b` of the top frame: the caller writes b to its own builder
ReturnString(st, b) ==
    [SubSeq(st, 1, Len(st) - 1) EXCEPT ![Len(st) - 1].builder = @ \o b]

\* the stack after the next statement of the getDeeperGlosses call on top
getDeeperGlossesStep(st) ==
    LET f == st[Len(st)]
    IN  CASE f.pc = "entry" ->
               IF LevelCapped(f.level) THEN ReturnString(st, <<>>)
               ELSE LET r == findLongestPrefix(deeperPrefixMap, f.txt)
                    IN  IF ~r.ok THEN ReturnString(st, f.builder)
                        ELSE LET target == extractTarget(f.txt, r.prefix)
                             IN  IF target \in DOMAIN glosses
                                 THEN [st EXCEPT ![Len(st)] =
                                         [f EXCEPT !.pc = "rangeGlosses",
                                                   !.targetGlosses = glosses[target],
                                                   !.gi = 1]]
                                 ELSE ReturnString(st, f.builder)
          [] f.pc = "rangeGlosses" ->
               IF f.gi > Len(f.targetGlosses) THEN ReturnString(st, f.builder)
               ELSE [st EXCEPT ![Len(st)] =
                       [f EXCEPT !.builder =
                                    Append(@, GlossLine(f.level, f.targetGlosses[f.gi])),
                                 !.pc = "rangeMeanings",
                                 !.mi = 1]]
          [] f.pc = "rangeMeanings" ->
               LET ms == f.targetGlosses[f.gi].Meanings
               IN  IF f.mi > Len(ms)
                   THEN [st EXCEPT ![Len(st)] =
                           [f EXCEPT !.pc = "rangeGlosses", !.gi = @ + 1]]
                   ELSE IF Len(st) >= MaxStack THEN st
                   ELSE Append([st EXCEPT ![Len(st)] =
                                  [f EXCEPT !.builder =
                                               Append(@, MeaningLine(f.level, ms[f.mi])),
                                            !.mi = @ + 1]],
                               ExpFrame(ms[f.mi], f.level + 1))

\* a FindWords(prefix) call that has just been entered; ws is its local
\* `words` slice, which every collectWords frame reaches through a pointer
FindFrame(prefix, ord) ==
    [fn |-> "FindWords", prefix |-> prefix, ord |-> ord, pc |-> "entry", ws |-> <<>>]

CollectFrame(node, prefix) ==
    [fn |-> "collectWords", node |-> node, prefix |-> prefix, pc |-> "entry",
     ks |-> <<>>, i |-> 0]

\* the stack after the next statement of the FindWords or collectWords call on top
FindWordsStep(st, h) ==
    LET f == st[Len(st)]
        ws == st[1].ws
        Return == SubSeq(st, 1, Len(st) - 1)
    IN  CASE f.fn = "FindWords" ->
               LET node == WalkFrom(h, root, f.prefix, 1)
               IN  IF node = 0
                   THEN [st EXCEPT ![Len(st)] = [f EXCEPT !.pc = "return", !.ws = <<>>]]
                   ELSE Append([st EXCEPT ![Len(st)] = [f EXCEPT !.pc = "return"]],
                               CollectFrame(node, f.prefix))
          [] f.fn = "collectWords" /\ f.pc = "entry" ->
               IF Len(ws) >= TRIE_MAX_SEARCH_DEPTH THEN Return
               ELSE [st EXCEPT
                       ![1].ws = IF h[f.node].isEnd THEN Append(@, f.prefix) ELSE @,
                       ![Len(st)] =
                           [f EXCEPT !.pc = "range",
                                     !.ks = KeyOrder(h[f.node].children,
                                                     Len(f.prefix), st[1].ord),
                                     !.i = 1]]
          [] f.fn = "collectWords" /\ f.pc = "range" ->
               IF f.i > Len(f.ks) THEN Return
               ELSE IF Len(ws) >= TRIE_MAX_SEARCH_DEPTH THEN Return
               ELSE IF Len(st) >= MaxStack THEN st
               ELSE Append([st EXCEPT ![Len(st)] = [f EXCEPT !.i = @ + 1]],
                           CollectFrame(h[f.node].children[f.ks[f.i]],
                                        f.prefix \o <<f.ks[f.i]>>))

\* the gloss files the stepped expansions run on
G(H, pos, ms) == [Word |-> H, Pos |-> pos, Meanings |-> ms]

SelfReference == << G(<<"A">>, "n", << RefTo(<<"A">>) >>) >>

TwoCycle ==
    << G(<<"A">>, "n", << RefTo(<<"B">>) >>), G(<<"B">>, "n", << RefTo(<<"A">>) >>) >>

Chain ==
    << G(<<"A">>, "n", << RefTo(<<"B">>) >>), G(<<"B">>, "n", << RefTo(<<"C">>) >>),
       G(<<"C">>, "n", << RefTo(<<"D">>) >>), G(<<"D">>, "n", << <<"x">> >>) >>

Homonyms ==
    << G(<<"B">>, "n", << <<"x">>, RefTo(<<"C">>) >>),
       G(<<"C">>, "n", << RefTo(<<"B">>), <<"y">> >>),
       G(<<"B">>, "v", << RefTo(<<"C">>), <<"z">> >>) >>

StepFiles == { <<>>, SelfReference, TwoCycle, Chain, Homonyms }

\* main has built the index, loaded the store and the phrase keys; the
\* index and the store are drawn one at a time
InitSteps ==
    /\ \/ /\ words \in SeqsUpTo(WordUniverse, MaxStepWords)
          /\ glosses = loadGlosses(<<>>)
          /\ meaning = <<>>
       \/ /\ words = <<>>
          /\ glosses \in { loadGlosses(recs) : recs \in StepFiles }
          /\ meaning \in MeaningUniverse
    /\ nIns = Len(words)
    /\ nodes = BuildTrie(words)
    /\ text = <<>> /\ matches = <<>> /\ inputText = <<>> /\ list = <<>>
    /\ deeper = <<>>
    /\ phrases = <<Of>>
    /\ deeperPrefixMap = PrefixMapOf(phrases)
    /\ deeperPrefixLengths = PrefixLengthsOf(phrases)
    /\ s = <<>>
    /\ found = [prefix |-> <<>>, ok |-> FALSE]
    /\ op = "initDeeperPrefixes"
    /\ RestIdle

\* generateGlossText reaches its call getDeeperGlosses(meaning, glosses, 1)
CallGetDeeperGlosses ==
    /\ op = "initDeeperPrefixes"
    /\ stack = <<>>
    /\ stack' = <<CallerFrame, ExpFrame(meaning, 1)>>
    /\ op' = "generateGlossText"
    /\ UNCHANGED <<indexVars, matcherVars, expanderVars, count, glossesJsonl, readers,
                   toolVars, uiVars, renderVars>>

\* the next statement of the getDeeperGlosses call on top of the stack
StepGetDeeperGlosses ==
    /\ stack # <<>>
    /\ stack[Len(stack)].fn = "getDeeperGlosses"
    /\ stack' = getDeeperGlossesStep(stack)
    /\ UNCHANGED <<op, indexVars, matcherVars, expanderVars, count, glossesJsonl,
                   readers, toolVars, uiVars, renderVars>>

\* generateGlossText has the string of its call
ReturnGetDeeperGlosses ==
    /\ stack # <<>>
    /\ stack[Len(stack)].fn = "generateGlossText"
    /\ deeper' = stack[Len(stack)].builder
    /\ stack' = <<>>
    /\ op' = "getDeeperGlosses"
    /\ UNCHANGED <<glosses, meaning, indexVars, matcherVars, count, glossesJsonl,
                   readers, toolVars, uiVars, renderVars>>

\* a call trie.FindWords(prefix) is entered
CallFindWords ==
    /\ op = "initDeeperPrefixes"
    /\ stack = <<>>
    /\ nIns = Len(words)
    /\ \E prefix \in Prefixes, ord \in Orders :
         /\ text' = prefix
         /\ stack' = <<FindFrame(prefix, ord)>>
    /\ op' = "updateList"
    /\ UNCHANGED <<words, nIns, nodes, matches, inputText, list, matcherVars,
                   expanderVars, count, glossesJsonl, readers, toolVars, uiVars, renderVars>>

\* the next statement of the FindWords call, or of the collectWords call on
\* top of it
StepFindWords ==
    /\ stack # <<>>
    /\ \/ stack[Len(stack)].fn = "collectWords"
       \/ stack[Len(stack)].fn = "FindWords" /\ stack[Len(stack)].pc = "entry"
    /\ stack' = FindWordsStep(stack, nodes)
    /\ UNCHANGED <<op, indexVars, matcherVars, expanderVars, count, glossesJsonl,
                   readers, toolVars, uiVars, renderVars>>

\* FindWords returns its slice
ReturnFindWords ==
    /\ stack # <<>>
    /\ stack[Len(stack)].fn = "FindWords"
    /\ stack[Len(stack)].pc = "return"
    /\ matches' = stack[Len(stack)].ws
    /\ stack' = <<>>
    /\ op' = "FindWords"
    /\ UNCHANGED <<words, nIns, nodes, text, inputText, list, matcherVars,
                   expanderVars, count, glossesJsonl, readers, toolVars, uiVars, renderVars>>

NextSteps ==
    \/ CallGetDeeperGlosses
    \/ StepGetDeeperGlosses
    \/ ReturnGetDeeperGlosses
    \/ CallFindWords
    \/ StepFindWords
    \/ ReturnFindWords

\* the goroutine that made the call runs it: a statement that can be
\* executed is executed
SpecSteps == InitSteps /\ [][NextSteps]_vars /\ WF_vars(NextSteps)

\* the stepped calls return what FindWords and getDeeperGlosses compute
StepsAgree ==
    /\ op = "getDeeperGlosses" => deeper = getDeeperGlosses(meaning, glosses, 1)
    /\ op = "FindWords" => \E ord \in Orders : matches = FindWords(nodes, text, ord)
    /\ Len(stack) < MaxStack

\* C11: a call expand(meaning, 1) and a call findMatches(prefix) return, on
\* every store and every index, a store whose meanings refer to their own
\* headword or to each other in a cycle included: every run reaches the
\* state where the call has returned and stays there.
C11_CallsReturn ==
    <>[](stack = <<>> /\ op \in {"getDeeperGlosses", "FindWords"})

\* C11 witness: the expansion of "of B" on the store A: "of B", B: "of A"
\* has returned B's entry and, below it, A's.
C11_Witness ==
    /\ op = "getDeeperGlosses"
    /\ stack = <<>>
    /\ glosses = loadGlosses(TwoCycle)
    /\ meaning = RefTo(<<"B">>)
    /\ Len(deeper) = 4

\* C11, the index: a FindWords call over a node with two children returned.
C11_FindWitness ==
    /\ op = "FindWords"
    /\ stack = <<>>
    /\ Len(matches) >= 2

\* C12: when no phrase key matches the leading words of the meaning, its
\* expansion is empty; when the phrase list is empty (the key set is then
\* empty, as it is before initDeeperPrefixes) the matcher reports no match
\* and every meaning expands to nothing, a meaning that is empty or all
\* white space included.
C12_NoMatchNoExpansion ==
    op = "getDeeperGlosses" =>
        /\ KeyCounts(meaning) = {} => deeper = <<>>
        /\ phrases = <<>> =>
              /\ deeperPrefixMap = {}
              /\ findLongestPrefix(deeperPrefixMap, meaning)
                    = [prefix |-> <<>>, ok |-> FALSE]
              /\ deeper = <<>>
        /\ Fields(meaning) = <<>> =>
              /\ ~findLongestPrefix(deeperPrefixMap, meaning).ok
              /\ deeper = <<>>

\* C12 witness: with no phrase at all, a meaning that is itself a stored
\* headword has been expanded, to nothing.
C12_Witness ==
    /\ op = "getDeeperGlosses"
    /\ phrases = <<>>
    /\ meaning = <<"B">>
    /\ <<"B">> \in DOMAIN glosses
    /\ deeper = <<>>

\* C12, the text without a word: an all-white-space meaning was expanded
\* with the phrase list loaded.
C12_BlankWitness ==
    /\ op = "getDeeperGlosses"
    /\ phrases = <<Of>>
    /\ meaning = <<" ", "\t">>
    /\ deeper = <<>>

\* the store g with the headword t holding no entry at all
WithNoEntries(g, t) ==
    [w \in (DOMAIN g) \cup {t} |-> IF w = t THEN <<>> ELSE g[w]]

\* C13: when a phrase matches and the cleaned target is not a key of the
\* store, the expansion is empty; it is empty too on the store in which the
\* target is a key that holds no entry.
C13_UnknownTargetNoExpansion ==
    op = "getDeeperGlosses" =>
        \A t \in TargetsOf(meaning) :
            /\ t \notin DOMAIN glosses => deeper = <<>>
            /\ getDeeperGlosses(meaning, WithNoEntries(glosses, t), 1) = <<>>

\* C13 witness: "of B" was expanded on a store that has entries, none of
\* them for B.
C13_Witness ==
    /\ op = "getDeeperGlosses"
    /\ phrases = <<Of>>
    /\ meaning = RefTo(<<"B">>)
    /\ <<"B">> \notin DOMAIN glosses
    /\ <<"C">> \in DOMAIN glosses
    /\ deeper = <<>>

(***************************************************************************)
(* The expander on written-out references                                  *)
(***************************************************************************)
DiminutiveOf == <<"d","i","m","i","n","u","t","i","v","e"," ","o","f">>
Koira == <<"k","o","i","r","a">>
BC == <<"B"," ","C">>

\* a store with a headword of two words and the headword of the example
Kennel ==
    << G(Koira, "n", << <<"dog">> >>), G(BC, "n", << RefTo(Koira) >>) >>

RenderFiles == StepFiles \cup { Kennel }

\* the headwords a reference is written to
TargetHeads == Heads \cup { BC, Koira }

\* what may follow the headword: a parenthesised annotation, an alternate
\* gloss after a semicolon, both, in either order
Annotations == { <<" ","(","c",")">>, <<"(","c",")">> }
Alternates == { <<";"," ","x">>, <<" ",";","x">> }
Tails ==
    { <<>> } \cup Annotations \cup Alternates
    \cup { a \o b : a \in Annotations, b \in Alternates }
    \cup { b \o a : a \in Annotations, b \in Alternates }

\* the punctuation a reference may end in
Endings == { <<>>, <<".">>, <<",">>, <<";">>, <<"?","!">>, <<":">> }

\* phrase P, a space, headword H, what follows it, the closing punctuation
Reference(P, H, tail, ending) == P \o <<" ">> \o H \o tail \o ending

ReferenceTexts ==
    { Reference(P, H, tail, ending) :
        P \in {Of, DiminutiveOf}, H \in TargetHeads, tail \in Tails, ending \in Endings }

InitRender ==
    /\ glosses \in { loadGlosses(recs) : recs \in RenderFiles }
    /\ meaning \in ReferenceTexts
    /\ deeper = <<>>
    /\ phrases \in { <<Of>>, <<DiminutiveOf, Of>> }
    /\ deeperPrefixMap = PrefixMapOf(phrases)
    /\ deeperPrefixLengths = PrefixLengthsOf(phrases)
    /\ s = <<>>
    /\ found = [prefix |-> <<>>, ok |-> FALSE]
    /\ op = "initDeeperPrefixes"
    /\ words = <<>> /\ IndexIdle
    /\ RestIdle

SpecRender == InitRender /\ [][NextExpander]_vars

\* C14: when the matcher selects the phrase P on a text P, a space, a
\* headword H (without "(" or ";", not ending in . , : ; ! ?), then
\* optionally an annotation in parentheses and an alternate gloss after a
\* semicolon, then optionally closing punctuation, the target is exactly H
\* and it is H that is looked up: "diminutive of koira." gives "koira".
C14_TargetIsHeadword ==
    op = "getDeeperGlosses" =>
        /\ \A P \in Range(phrases), H \in TargetHeads, tail \in Tails, ending \in Endings :
              ( /\ meaning = Reference(P, H, tail, ending)
                /\ findLongestPrefix(deeperPrefixMap, meaning)
                      = [prefix |-> P \o <<" ">>, ok |-> TRUE] ) =>
                  /\ extractTarget(meaning, P \o <<" ">>) = H
                  /\ H \in DOMAIN glosses =>
                        /\ deeper # <<>>
                        /\ deeper[1] = GlossLine(1, glosses[H][1])
                        /\ EmittedAt(1) = {H}
                  /\ H \notin DOMAIN glosses => deeper = <<>>
        /\ ( /\ meaning = Reference(DiminutiveOf, Koira, <<>>, <<".">>)
             /\ DiminutiveOf \in Range(phrases) ) =>
               TargetsOf(meaning) = {Koira}

\* C14 witness: "diminutive of koira (c); x." was expanded with both
\* phrases loaded, on the store that holds koira.
C14_Witness ==
    /\ op = "getDeeperGlosses"
    /\ phrases = <<DiminutiveOf, Of>>
    /\ meaning = Reference(DiminutiveOf, Koira, <<" ","(","c",")",";"," ","x">>, <<".">>)
    /\ Koira \in DOMAIN glosses
    /\ EmittedAt(1) = {Koira}

\* the lines of deeper written at a level, in the order they were written
LinesAt(level) == SelectSeq(deeper, LAMBDA l : l.level = level)

\* the header of an entry and one line for each of its meanings, in order
EntryLines(level, e) ==
    <<GlossLine(level, e)>>
    \o [k \in 1..Len(e.Meanings) |-> MeaningLine(level, e.Meanings[k])]

\* EntryLines of the entries es, one entry after the other
RECURSIVE EntriesLines(_, _)
EntriesLines(level, es) ==
    IF es = <<>> THEN <<>>
    ELSE EntryLines(level, Head(es)) \o EntriesLines(level, Tail(es))

\* the lines of deeper after line i and before the next line of i's level
BlockAfter(i) ==
    LET later == { j \in (i + 1)..Len(deeper) : deeper[j].level <= deeper[i].level }
        stop  == IF later = {} THEN Len(deeper) + 1
                 ELSE CHOOSE j \in later : \A k \in later : j <= k
    IN  SubSeq(deeper, i + 1, stop - 1)

\* the entries stored for the headword a text refers to
EntriesFor(txt) ==
    LET T == TargetsOf(txt) \cap DOMAIN glosses
    IN  IF T = {} THEN <<>> ELSE glosses[CHOOSE t \in T : TRUE]

\* C15: on a hit the expansion holds, at depth 1, every entry stored for
\* the target in insertion order, each with its meanings in stored order;
\* the expansion of a meaning at the next depth stands directly after that
\* meaning and before the next one, and no other line stands in between.
C15_EmissionOrder ==
    op = "getDeeperGlosses" =>
        /\ LinesAt(1) = EntriesLines(1, EntriesFor(meaning))
        /\ \A i \in 1..Len(deeper) :
              deeper[i].level = 1 =>
                  BlockAfter(i) =
                      IF deeper[i].fmt = "meaning"
                      THEN EntriesLines(2, EntriesFor(deeper[i].a))
                      ELSE <<>>

\* C15 witness: "of B" was expanded on the store with two entries for B,
\* each with two meanings, one of them a reference to C.
C15_Witness ==
    /\ op = "getDeeperGlosses"
    /\ glosses = loadGlosses(Homonyms)
    /\ meaning = RefTo(<<"B">>)
    /\ Len(LinesAt(1)) = 6
    /\ Len(LinesAt(2)) = 6

(***************************************************************************)
(* Loading the gloss file: json.Unmarshal line by line                     *)
(***************************************************************************)
\* longest gloss file drawn from LineUniverse
MaxLines == 3

\* the zero value of Gloss
ZeroGloss == G(<<>>, "", <<>>)

\* a line of the file: its text, and for a line that is a JSON object the
\* fields json.Unmarshal finds in it
ObjectLine(g) == [raw |-> "{...}", g |-> g]
RawLine(t) == [raw |-> t, g |-> ZeroGloss]

\* json.Unmarshal(line, &g): the error, and g after the call.  An empty
\* line, a line of white space and a cut-off object are errors; an object
\* without fields leaves g at its zero value.
Unmarshal(line) ==
    IF line.raw \in {"", " ", "{"}
    THEN [err |-> TRUE, g |-> ZeroGloss]
    ELSE [err |-> FALSE, g |-> line.g]

RECURSIVE ScanSkipping(_, _, _)
RECURSIVE Scan(_, _, _)

\* the scanner loop with `continue` where the code returns the error
ScanSkipping(lines, i, m) ==
    IF i > Len(lines) THEN [glosses |-> m, err |-> 0]
    ELSE LET u == Unmarshal(lines[i])
         IN  IF u.err THEN Scan(lines, i + 1, m)
             ELSE Scan(lines, i + 1, loadGlossesFrom(<<u.g>>, 1, m))

\* `for scanner.Scan() { ... }` from line i on: the map and nil (0), or nil
\* (<<>>) and the error, which here is the number of the line
Scan(lines, i, m) ==
    IF i > Len(lines) THEN [glosses |-> m, err |-> 0]
    ELSE LET u == Unmarshal(lines[i])
         IN  IF u.err THEN [glosses |-> <<>>, err |-> i]
             ELSE Scan(lines, i + 1, loadGlossesFrom(<<u.g>>, 1, m))

\* makegob's loader; tsk's loadGlosses is the same loop over the embedded file
loadGlossesFromJSONL(lines) == Scan(lines, 1, <<>>)

LineUniverse ==
    { ObjectLine(G(<<"A">>, "n", << <<"x">> >>)),
      ObjectLine(G(<<"B">>, "n", << RefTo(<<"A">>) >>)),
      ObjectLine(G(<<"A">>, "v", << <<"y">> >>)),
      ObjectLine(ZeroGloss),
      RawLine(""), RawLine(" "), RawLine("{") }

GlossTexts == SeqsUpTo(LineUniverse, MaxLines)

\* tsk's main before loadGlosses
InitLoad ==
    /\ glossesJsonl \in GlossTexts
    /\ meaning \in { RefTo(<<"A">>), RefTo(<<"B">>) }
    /\ glosses = <<>>
    /\ deeper = <<>>
    /\ phrases = <<Of>>
    /\ MatcherIdle
    /\ op = "main"
    /\ words = <<>> /\ IndexIdle
    /\ count = -1
    /\ stack = <<>>
    /\ readers = <<>>
    /\ ToolIdle
    /\ UiIdle
    /\ RenderIdle

\* main: glosses, err := loadGlosses(); if err != nil { ...; os.Exit(1) }
DoLoadGlosses ==
    /\ op = "main"
    /\ LET r == loadGlossesFromJSONL(glossesJsonl)
       IN  IF r.err # 0
           THEN /\ op' = "os.Exit"
                /\ UNCHANGED glosses
           ELSE /\ op' = "loadGlosses"
                /\ glosses' = r.glosses
    /\ UNCHANGED <<meaning, deeper, indexVars, matcherVars, restVars>>

NextLoad == DoLoadGlosses \/ DoInitDeeperPrefixes \/ DoGetDeeperGlosses

SpecLoad == InitLoad /\ [][NextLoad]_vars

\* the lines of the file that json.Unmarshal rejects
BadLines == { i \in 1..Len(glossesJsonl) : glossesJsonl[i].raw \in {"", " ", "{"} }

\* how many entries the store holds
RECURSIVE EntryCount(_)
EntryCount(g) ==
    IF DOMAIN g = {} THEN 0
    ELSE LET w == CHOOSE w \in DOMAIN g : TRUE
         IN  Len(g[w]) + EntryCount([v \in (DOMAIN g) \ {w} |-> g[v]])

\* C16: when a line of the gloss file does not parse, a blank line
\* included, loading fails and startup ends there: the store stays
\* unloaded, the phrase keys are never built and no expansion is served;
\* startup goes on only when every line parsed, and then every line is an
\* entry of the store.
C16_BadRecordAborts ==
    /\ (op # "main" /\ BadLines # {}) =>
          /\ op = "os.Exit"
          /\ glosses = <<>>
          /\ deeperPrefixMap = {}
          /\ deeper = <<>>
    /\ op \in {"loadGlosses", "initDeeperPrefixes", "getDeeperGlosses"} =>
          /\ BadLines = {}
          /\ EntryCount(glosses) = Len(glossesJsonl)

\* C16 witness: the file holds a good record, a blank line and another good
\* record, and startup has ended at the loader.
C16_Witness ==
    /\ op = "os.Exit"
    /\ Len(glossesJsonl) = 3
    /\ glossesJsonl[1].raw = "{...}"
    /\ glossesJsonl[2].raw = ""
    /\ glossesJsonl[3].raw = "{...}"
    /\ glosses = <<>>

\* C16, the good file: every line parsed and an expansion was served.
C16_LoadedWitness ==
    /\ op = "getDeeperGlosses"
    /\ Len(glossesJsonl) = 3
    /\ deeper # <<>>

(***************************************************************************)
(* The queries on the built index, store and key set                       *)
(***************************************************************************)
\* longest word list of the indexes the queries run on
MaxQueryWords == 1

\* main has built the index, loaded the store and the phrase keys
InitQueries ==
    /\ words \in SeqsUpTo(WordUniverse, MaxQueryWords)
    /\ nIns = Len(words)
    /\ nodes = BuildTrie(words)
    /\ text = <<>> /\ matches = <<>> /\ inputText = <<>> /\ list = <<>>
    /\ glosses \in { loadGlosses(recs) : recs \in {TwoCycle, Chain} }
    /\ meaning \in { <<"x">>, RefTo(<<"B">>), RefTo(BC) }
    /\ deeper = <<>>
    /\ phrases = <<Of>>
    /\ deeperPrefixMap = PrefixMapOf(phrases)
    /\ deeperPrefixLengths = PrefixLengthsOf(phrases)
    /\ s \in { <<>>, See, RefTo(<<"B">>) }
    /\ found = [prefix |-> <<>>, ok |-> FALSE]
    /\ op = "initDeeperPrefixes"
    /\ RestIdle

NextQueries ==
    \/ DoFindWords
    \/ DoCountNodes
    \/ DoFindLongestPrefix
    \/ DoGetDeeperGlosses

SpecQueries == InitQueries /\ [][NextQueries]_vars

Readers == {"r1", "r2"}

\* a goroutine that has not called yet: no frame, an unallocated slice
IdleReader ==
    [stack |-> <<>>, ws |-> <<>>, arg |-> [fn |-> "", a |-> <<>>, ord |-> <<>>],
     ret |-> <<>>, done |-> FALSE]

\* one slice for every caller, as a package-level `words` would be
SliceShared(r) == "r1"

\* whose slice the collectWords frames of r's call append to: FindWords
\* declares `var words []string` in its own frame
SliceOf(r) == r

\* the goroutines after the next statement of r's FindWords call
ReaderFindWordsStep(rs, r, h) ==
    LET o   == SliceOf(r)
        st  == rs[r].stack
        out == FindWordsStep([st EXCEPT ![1].ws = rs[o].ws], h)
    IN  [q \in Readers |->
           IF q = r
           THEN [rs[q] EXCEPT !.stack = out,
                              !.ws = IF o = r THEN out[1].ws ELSE @]
           ELSE IF q = o THEN [rs[q] EXCEPT !.ws = out[1].ws]
           ELSE rs[q]]

ReaderLists ==
    { << <<"a","b">>, <<"a","a">> >>, << <<"a">>, <<"b">> >> }

ReaderPrefixes == { <<>>, <<"a">>, <<"b","b">> }

InitReaders ==
    /\ words \in ReaderLists
    /\ nIns = Len(words)
    /\ nodes = BuildTrie(words)
    /\ text = <<>> /\ matches = <<>> /\ inputText = <<>> /\ list = <<>>
    /\ glosses \in { loadGlosses(recs) : recs \in {TwoCycle, Homonyms} }
    /\ meaning = <<>>
    /\ deeper = <<>>
    /\ phrases = <<Of>>
    /\ deeperPrefixMap = PrefixMapOf(phrases)
    /\ deeperPrefixLengths = PrefixLengthsOf(phrases)
    /\ s = <<>>
    /\ found = [prefix |-> <<>>, ok |-> FALSE]
    /\ op = "initDeeperPrefixes"
    /\ count = -1
    /\ stack = <<>>
    /\ glossesJsonl = <<>>
    /\ readers = [r \in Readers |-> IdleReader]
    /\ ToolIdle
    /\ UiIdle
    /\ RenderIdle

ReaderFrame ==
    UNCHANGED <<op, indexVars, matcherVars, expanderVars, count, stack, glossesJsonl,
                toolVars, uiVars, renderVars>>

\* goroutine r enters trie.FindWords(prefix)
ReaderCallFindWords(r) ==
    /\ readers[r].stack = <<>>
    /\ ~readers[r].done
    /\ \E prefix \in ReaderPrefixes, ord \in Orders :
         readers' = [readers EXCEPT
                       ![r].stack = <<FindFrame(prefix, ord)>>,
                       ![r].arg = [fn |-> "FindWords", a |-> prefix, ord |-> ord]]
    /\ ReaderFrame

\* goroutine r enters getDeeperGlosses(m, glosses, 1) from generateGlossText
ReaderCallGetDeeperGlosses(r) ==
    /\ readers[r].stack = <<>>
    /\ ~readers[r].done
    /\ \E m \in { RefTo(<<"A">>), RefTo(<<"B">>) } :
         readers' = [readers EXCEPT
                       ![r].stack = <<CallerFrame, ExpFrame(m, 1)>>,
                       ![r].arg = [fn |-> "getDeeperGlosses", a |-> m, ord |-> <<>>]]
    /\ ReaderFrame

\* the next statement of r's FindWords call
ReaderStepFindWords(r) ==
    /\ readers[r].stack # <<>>
    /\ LET f == readers[r].stack[Len(readers[r].stack)]
       IN  \/ f.fn = "collectWords"
           \/ f.fn = "FindWords" /\ f.pc = "entry"
    /\ readers' = ReaderFindWordsStep(readers, r, nodes)
    /\ ReaderFrame

\* the next statement of r's getDeeperGlosses call
ReaderStepGetDeeperGlosses(r) ==
    /\ readers[r].stack # <<>>
    /\ readers[r].stack[Len(readers[r].stack)].fn = "getDeeperGlosses"
    /\ readers' = [readers EXCEPT ![r].stack = getDeeperGlossesStep(@)]
    /\ ReaderFrame

\* r's call returns to r
ReaderReturn(r) ==
    /\ readers[r].stack # <<>>
    /\ LET f == readers[r].stack[Len(readers[r].stack)]
       IN  \/ /\ f.fn = "FindWords" /\ f.pc = "return"
              /\ readers' = [readers EXCEPT ![r].ret = readers[SliceOf(r)].ws,
                                            ![r].stack = <<>>,
                                            ![r].done = TRUE]
           \/ /\ f.fn = "generateGlossText"
              /\ readers' = [readers EXCEPT ![r].ret = f.builder,
                                            ![r].stack = <<>>,
                                            ![r].done = TRUE]
    /\ ReaderFrame

NextReaders ==
    \E r \in Readers :
        \/ ReaderCallFindWords(r)
        \/ ReaderCallGetDeeperGlosses(r)
        \/ ReaderStepFindWords(r)
        \/ ReaderStepGetDeeperGlosses(r)
        \/ ReaderReturn(r)

SpecReaders == InitReaders /\ [][NextReaders]_vars

\* C18: whatever the interleaving of the statements of the goroutines that
\* call FindWords and getDeeperGlosses on the same built index and store,
\* with no goroutine writing, a call returns what the same call returns
\* when it runs alone.
C18_ReadersAsAlone ==
    \A r \in Readers :
        readers[r].done =>
            IF readers[r].arg.fn = "FindWords"
            THEN readers[r].ret = FindWords(nodes, readers[r].arg.a, readers[r].arg.ord)
            ELSE readers[r].ret = getDeeperGlosses(readers[r].arg.a, glosses, 1)

\* C18 witness: r1's FindWords("a") has returned both words while r2 is in
\* the middle of its own FindWords call, one word collected so far.
C18_Witness ==
    /\ readers # <<>>
    /\ readers["r1"].done
    /\ readers["r1"].arg.fn = "FindWords"
    /\ Len(readers["r1"].ret) = 2
    /\ Len(readers["r2"].stack) > 1
    /\ readers["r2"].arg.fn = "FindWords"
    /\ Len(readers["r2"].ws) = 1

(***************************************************************************)
(* Counting the nodes                                                      *)
(***************************************************************************)
NextCount == DoInsert \/ DoCountNodes

SpecCount == Init /\ [][NextCount]_vars

\* the non-empty leading parts of the inserted words
LeadingParts == UNION { { Take(w, k) : k \in 1..Len(w) } : w \in Inserted }

\* C19: CountNodes returns 1, for the root, plus the number of distinct
\* non-empty leading parts of the inserted words.
C19_CountIsPrefixes ==
    op = "CountNodes" =>
        /\ count = 1 + Cardinality(LeadingParts)
        /\ count = Len(nodes)

\* C19 witness: the words "ab", "aa" and "ab" again were inserted and
\* counted: root, a, ab, aa.
C19_Witness ==
    /\ op = "CountNodes"
    /\ words = << <<"a","b">>, <<"a","a">>, <<"a","b">> >>
    /\ count = 4

(***************************************************************************)
(* makegob: where the glosses are read from                                *)
(***************************************************************************)
defaultInputFile == "glosses.jsonl"

\* main's "Determine Input Source": the name of the source it reads, or ""
\* when it ends with os.Exit(1) because the file cannot be opened
InputSource(inFlag, piped, files) ==
    IF inFlag # ""
    THEN IF inFlag \in DOMAIN files THEN inFlag ELSE ""
    ELSE IF piped THEN "standard input"
    ELSE IF defaultInputFile \in DOMAIN files THEN defaultInputFile
    ELSE ""

\* what a file or standard input may hold
ToolContents ==
    { <<>>,
      << ObjectLine(G(<<"A">>, "n", << <<"x">> >>)) >>,
      << ObjectLine(G(<<"B">>, "n", << <<"y">> >>)), RawLine("") >> }

FileNames == { defaultInputFile, "my.jsonl" }

FileSystems ==
    UNION { [D -> ToolContents] : D \in SUBSET FileNames }

\* makegob after flag.Parse
InitMakegob ==
    /\ inputFile \in { "", "my.jsonl" }
    /\ stdinPiped \in BOOLEAN
    /\ fs \in FileSystems
    /\ stdin \in IF stdinPiped THEN ToolContents ELSE { <<>> }
    /\ inputSourceName = ""
    /\ gob = <<>>
    /\ glosses = <<>> /\ ExpanderIdle
    /\ op = "flag.Parse"
    /\ words = <<>> /\ IndexIdle
    /\ phrases = <<>> /\ MatcherIdle
    /\ count = -1
    /\ stack = <<>>
    /\ glossesJsonl = <<>>
    /\ readers = <<>>
    /\ UiIdle
    /\ RenderIdle

ToolFrame ==
    UNCHANGED <<inputFile, stdinPiped, fs, stdin, meaning, deeper, indexVars,
                matcherVars, count, stack, glossesJsonl, readers, uiVars,
                renderVars>>

\* main: the reader is chosen, or the program ends
DoDetermineInput ==
    /\ op = "flag.Parse"
    /\ inputSourceName' = InputSource(inputFile, stdinPiped, fs)
    /\ op' = IF inputSourceName' = "" THEN "os.Exit" ELSE "os.Open"
    /\ UNCHANGED <<glosses, gob>>
    /\ ToolFrame

\* main: glosses, err := loadGlossesFromJSONL(reader)
DoLoadGlossesFromJSONL ==
    /\ op = "os.Open"
    /\ LET lines == IF inputSourceName = "standard input" THEN stdin
                    ELSE fs[inputSourceName]
           r == loadGlossesFromJSONL(lines)
       IN  IF r.err # 0
           THEN op' = "os.Exit" /\ UNCHANGED glosses
           ELSE op' = "loadGlossesFromJSONL" /\ glosses' = r.glosses
    /\ UNCHANGED <<inputSourceName, gob>>
    /\ ToolFrame

\* main: saveGlossesToGob(glosses, *outputFile)
DoSaveGlossesToGob ==
    /\ op = "loadGlossesFromJSONL"
    /\ gob' = glosses
    /\ op' = "saveGlossesToGob"
    /\ UNCHANGED <<inputSourceName, glosses>>
    /\ ToolFrame

NextMakegob == DoDetermineInput \/ DoLoadGlossesFromJSONL \/ DoSaveGlossesToGob

SpecMakegob == InitMakegob /\ [][NextMakegob]_vars

\* C20: run without -in, makegob reads the default file glosses.jsonl, and
\* reads standard input only if that file is not found; run with -in, it
\* reads the named file.
C20_DefaultFileBeforeStdin ==
    inputSourceName # "" =>
        /\ inputFile # "" => inputSourceName = inputFile
        /\ inputFile = "" =>
              /\ defaultInputFile \in DOMAIN fs => inputSourceName = defaultInputFile
              /\ inputSourceName = "standard input" => defaultInputFile \notin DOMAIN fs

\* C20, the run that departs from it: no -in, glosses.jsonl is there with
\* one record, standard input is a pipe with nothing on it, and the gob
\* file was written from standard input: it holds no entry.
C20_EmptyGobFromPipe ==
    /\ op = "saveGlossesToGob"
    /\ inputFile = ""
    /\ stdinPiped
    /\ stdin = <<>>
    /\ defaultInputFile \in DOMAIN fs
    /\ Len(fs[defaultInputFile]) = 1
    /\ inputSourceName = "standard input"
    /\ gob = <<>>

(***************************************************************************)
(* The main window: search field, result list, marked words                *)
(***************************************************************************)
\* longest word list of the indexes the window runs on
MaxAppWords == 2

AppWords == { <<"a">>, <<"a","b">>, <<"b">> }

\* the store behind the reverse-find window: its headwords can be picked
AppFile ==
    << G(<<"a">>, "n", << <<"x">> >>), G(<<"a","b">>, "n", << <<"y">> >>),
       G(<<"b","b">>, "n", << <<"z">> >>) >>

\* the Ctrl-S branch that only ever adds the word
MarkOnly(m, w) == m \cup {w}

\* the Ctrl-S branch on `marked`: delete(marked, word) or marked[word] = struct{}{}
ToggleMark(m, w) == IF w \in m THEN m \ {w} ELSE m \cup {w}

\* a SetText that stores the text and calls no handler
SetTextNoEvent(old, h, t, ord) == old

\* the list after inputField.SetText(t) on the list old: SetText triggers
\* the field's changed handler, which is updateList(t)
SetText(old, h, t, ord) == updateList(h, t, ord)

\* main has built the index and the store and shows the window
InitApp ==
    /\ words \in SeqsUpTo(AppWords, MaxAppWords)
    /\ nIns = Len(words)
    /\ nodes = BuildTrie(words)
    /\ text = <<>> /\ matches = <<>> /\ inputText = <<>> /\ list = <<>>
    /\ glosses = loadGlosses(AppFile)
    /\ ExpanderIdle
    /\ phrases = <<>> /\ MatcherIdle
    /\ op = "app.Run"
    /\ RestIdle

AppFrame ==
    UNCHANGED <<words, nIns, nodes, matcherVars, expanderVars, count, stack,
                glossesJsonl, readers, toolVars, renderVars>>

\* the search field's and the list's state after updateList(t) ran last
Shown(t, items) ==
    /\ inputText' = t
    /\ list' = items
    /\ currentItem' = 0
    /\ IF t = <<>>
       THEN UNCHANGED <<text, matches>>
       ELSE text' = t /\ matches' = items

\* Enter in the search field: inputField.SetText(""); updateList("")
DoKeyEnter ==
    /\ \E ord \in Orders :
         Shown(<<>>, updateList(nodes, <<>>, ord))
    /\ op' = "KeyEnter"
    /\ UNCHANGED marked
    /\ AppFrame

\* Down in the search field
DoKeyDown ==
    /\ currentItem' = IF currentItem < Len(list) - 1 THEN currentItem + 1 ELSE currentItem
    /\ op' = "KeyDown"
    /\ UNCHANGED <<text, matches, inputText, list, marked>>
    /\ AppFrame

\* Up in the search field
DoKeyUp ==
    /\ currentItem' = IF currentItem > 0 THEN currentItem - 1 ELSE currentItem
    /\ op' = "KeyUp"
    /\ UNCHANGED <<text, matches, inputText, list, marked>>
    /\ AppFrame

\* Ctrl-S: a message when the list is empty; otherwise the current item
\* goes to the search field, its mark is toggled and the list is refilled
DoKeyCtrlS ==
    /\ IF list = <<>>
       THEN UNCHANGED <<text, matches, inputText, list, currentItem, marked>>
       ELSE LET word == list[currentItem + 1]
            IN  /\ marked' = ToggleMark(marked, word)
                /\ \E ord \in Orders :
                     Shown(word, updateList(nodes, word, ord))
    /\ op' = "KeyCtrlS"
    /\ AppFrame

\* Enter on an item of the reverse-find window: mainInputField.SetText(mainText)
DoPickMeaningSearch ==
    /\ \E w \in DOMAIN glosses, ord \in Orders :
         Shown(w, SetText(list, nodes, w, ord))
    /\ op' = "meaningSearch"
    /\ UNCHANGED marked
    /\ AppFrame

NextApp ==
    \/ DoUpdateList
    \/ DoKeyEnter
    \/ DoKeyDown
    \/ DoKeyUp
    \/ DoKeyCtrlS
    \/ DoPickMeaningSearch

SpecApp == InitApp /\ [][NextApp]_vars

\* C21: Ctrl-S on a list with items toggles the mark of the current item
\* and of no other word, and leaves that word the current item, so that a
\* second Ctrl-S restores the marked set; on an empty list it leaves the
\* marked set, the search text and the list as they are.
C21_CtrlSTogglesCurrent ==
    [][ op' = "KeyCtrlS" =>
          IF list = <<>>
          THEN marked' = marked /\ inputText' = inputText /\ list' = list
          ELSE LET w == list[currentItem + 1]
               IN  /\ w \in marked' <=> w \notin marked
                   /\ marked' \ {w} = marked \ {w}
                   /\ list' # <<>> /\ list'[currentItem' + 1] = w ]_vars

\* C21 witness: Ctrl-S has just removed the mark of the word ab, which is
\* now alone in the list, and the mark of the word a is still there.
C21_Witness ==
    /\ op = "KeyCtrlS"
    /\ Len(list) = 1
    /\ inputText = <<"a","b">>
    /\ words = << <<"a">>, <<"a","b">> >>
    /\ marked = {<<"a">>}

\* C25: whatever the sequence of window events, the list holds exactly
\* what FindWords returns for the text of the search field when that text
\* is not empty and holds nothing when it is empty; after Enter both the
\* search field and the list are empty.
C25_ListShowsMatches ==
    /\ IF inputText = <<>>
       THEN list = <<>>
       ELSE \E ord \in Orders : list = FindWords(nodes, inputText, ord)
    /\ op = "KeyEnter" => inputText = <<>> /\ list = <<>>

\* C25 witness: a word picked in the reverse-find window replaced the
\* search text, and the list shows the two indexed words that begin with it.
C25_Witness ==
    /\ op = "meaningSearch"
    /\ inputText = <<"a">>
    /\ Len(list) = 2
    /\ marked # {}

\* C25 witness for Enter: the field and the list are empty after Enter on
\* an index that has words.
C25_EnterWitness ==
    /\ op = "KeyEnter"
    /\ inputText = <<>> /\ list = <<>>
    /\ words # <<>> /\ matches # <<>>

(***************************************************************************)
(* C22: terminal nodes and inserted words                                  *)
(***************************************************************************)
\* the strings a root path can spell: the leading parts of the listed words
RootPaths ==
    {<<>>} \cup UNION { { Take(words[i], k) : k \in 1..Len(words[i]) } :
                         i \in 1..Len(words) }

\* every node is reached from the root by one string, and the node is
\* terminal exactly when that string is an inserted word
TerminalIffInserted ==
    \A n \in 1..Len(nodes) :
        \E p \in RootPaths :
            /\ WalkFrom(nodes, root, p, 1) = n
            /\ \A q \in RootPaths : WalkFrom(nodes, root, q, 1) = n => q = p
            /\ nodes[n].isEnd <=> p \in Inserted

\* a step keeps every node, every child link and every set terminal flag
InsertKeepsNodes ==
    \A n \in 1..Len(nodes) :
        /\ n <= Len(nodes')
        /\ nodes[n].isEnd => nodes'[n].isEnd
        /\ \A ch \in DOMAIN nodes[n].children :
               /\ ch \in DOMAIN nodes'[n].children
               /\ nodes'[n].children[ch] = nodes[n].children[ch]

\* C22: after any sequence of inserts a node is terminal if and only if
\* the string spelled by its path from the root is an inserted word, and an
\* insert neither removes a node nor clears a terminal flag that an earlier
\* insert has set.
C22_TerminalIffInserted ==
    /\ []TerminalIffInserted
    /\ [][InsertKeepsNodes]_vars

\* C22 witness: aba was inserted and then its leading part a: the node of
\* a became terminal, the node of ab between them is not, the node of aba
\* kept its flag.
C22_Witness ==
    /\ op = "Insert"
    /\ words = << <<"a","b","a">>, <<"a">> >>
    /\ nIns = 2
    /\ Len(nodes) = 4
    /\ nodes[2].isEnd /\ ~nodes[3].isEnd /\ nodes[4].isEnd

(***************************************************************************)
(* C23: the store after a successful load                                  *)
(***************************************************************************)
\* the records of the gloss file, line by line
Records == [i \in 1..Len(glossesJsonl) |-> glossesJsonl[i].g]

\* C23: after a successful load every entry stored under a key has that
\* key as its headword, every record of the file is stored exactly once,
\* and the entries under one key stand in the order of their records in
\* the file.
C23_StoreKeepsRecords ==
    op \in {"loadGlosses", "initDeeperPrefixes", "getDeeperGlosses"} =>
        /\ DOMAIN glosses = { Records[i].Word : i \in 1..Len(Records) }
        /\ \A k \in DOMAIN glosses :
              /\ \A i \in 1..Len(glosses[k]) : glosses[k][i].Word = k
              /\ glosses[k] = SelectSeq(Records, LAMBDA g : g.Word = k)
        /\ EntryCount(glosses) = Len(Records)

\* C23 witness: the file holds a record for A, one for B and a second,
\* different record for A; the store holds the two A records in that order.
C23_Witness ==
    /\ op = "loadGlosses"
    /\ Len(glossesJsonl) = 3
    /\ glossesJsonl[2].g.Word = <<"B">>
    /\ <<"A">> \in DOMAIN glosses
    /\ Len(glosses[<<"A">>]) = 2
    /\ glosses[<<"A">>][1].Pos = "n"
    /\ glosses[<<"A">>][2].Pos = "v"

(***************************************************************************)
(* C24: the key set and the length table after initDeeperPrefixes          *)
(***************************************************************************)
\* the keys the phrase list stands for
KeysOfPhrases == { phrases[i] \o <<" ">> : i \in 1..Len(phrases) }

MatcherBuilt == op \in {"initDeeperPrefixes", "findLongestPrefix"}

\* C24 as stated: after initialisation the key set is exactly the phrases
\* with a space appended, and the length table holds each distinct key
\* length, counted in code points, once, in descending order.
C24_LengthsInCodePoints ==
    MatcherBuilt =>
        /\ deeperPrefixMap = KeysOfPhrases
        /\ deeperPrefixLengths = SortDesc({ Len(k) : k \in deeperPrefixMap })

\* C24 amended: the key set is exactly the phrases with a space appended,
\* and the length table holds each distinct key length, counted in bytes
\* of the UTF-8 encoding, once, in descending order.
C24_LengthsInBytes ==
    MatcherBuilt =>
        /\ deeperPrefixMap = KeysOfPhrases
        /\ deeperPrefixLengths = SortDesc({ ByteLen(k) : k \in deeperPrefixMap })
        /\ \A i, j \in 1..Len(deeperPrefixLengths) :
              i < j => deeperPrefixLengths[i] > deeperPrefixLengths[j]

\* C24 witness: the phrases are "s" and "s" with a-diaeresis; the keys have
\* 2 and 3 code points, and the table holds 4 and 2.
C24_Witness ==
    /\ op = "initDeeperPrefixes"
    /\ phrases = <<SAe, <<"s">>>>
    /\ deeperPrefixMap = { <<"s","U+00E4"," ">>, <<"s"," ">> }
    /\ deeperPrefixLengths = <<4, 2>>

(***************************************************************************)
(* C26: the reported key and the start of the text                         *)
(***************************************************************************)
\* C26: whenever findLongestPrefix reports a key for a text, the text
\* begins with that key, code point by code point, so that TrimPrefix
\* takes the phrase off and the cleaned target differs from the text with
\* only its white space and punctuation trimmed.
C26_KeyIsLiteralPrefix ==
    (op = "findLongestPrefix" /\ found.ok) =>
        /\ IsPrefixOf(found.prefix, s)
        /\ TrimPrefix(s, found.prefix) # s

\* a text made of the phrase alone: the key "s " is reported for "s"
C26_PhraseAlone ==
    /\ op = "findLongestPrefix"
    /\ s = <<"s">>
    /\ found = [prefix |-> <<"s"," ">>, ok |-> TRUE]
    /\ extractTarget(s, found.prefix) = <<"s">>

\* a tab between the words of a two-word phrase: the key "s o " is
\* reported, and the target is the whole text
C26_TabBetweenWords ==
    /\ op = "findLongestPrefix"
    /\ s = <<"s","\t","o"," ">>
    /\ found = [prefix |-> <<"s"," ","o"," ">>, ok |-> TRUE]
    /\ extractTarget(s, found.prefix) = <<"s","\t","o">>

(***************************************************************************)
(* C27: the shape of the cleaned target                                    *)
(***************************************************************************)
\* longest text that follows the phrase in a meaning
MaxRestLen == 3

\* what follows the phrase: a headword letter, white space, punctuation,
\* an opening parenthesis, a semicolon, in any arrangement
RestChars == {"B", " ", ".", "(", ";"}

CleanTexts == { RefTo(r) : r \in SeqsUpTo(RestChars, MaxRestLen) }

\* the expander on meanings that begin with the phrase "of"
InitClean ==
    /\ glosses \in { loadGlosses(recs) : recs \in StepFiles }
    /\ meaning \in CleanTexts
    /\ deeper = <<>>
    /\ phrases = <<Of>>
    /\ deeperPrefixMap = PrefixMapOf(phrases)
    /\ deeperPrefixLengths = PrefixLengthsOf(phrases)
    /\ s = <<>>
    /\ found = [prefix |-> <<>>, ok |-> FALSE]
    /\ op = "initDeeperPrefixes"
    /\ words = <<>> /\ IndexIdle
    /\ RestIdle

SpecClean == InitClean /\ [][NextExpander]_vars

\* C27: for every meaning in which a phrase is matched, the cleaned target
\* that is looked up has no white space at either end, holds no "(" and no
\* ";", and does not end in one of . , : ; ! ?
C27_TargetIsClean ==
    op = "getDeeperGlosses" =>
        \A t \in TargetsOf(meaning) :
            /\ t = TrimSpace(t)
            /\ "(" \notin Range(t) /\ ";" \notin Range(t)
            /\ t = TrimRight(t, Punctuation)

\* "of B ." : the full stop goes after the white space was trimmed, and the
\* target keeps the space; the entry of B is not found
C27_TrailingSpace ==
    /\ op = "getDeeperGlosses"
    /\ meaning = RefTo(<<"B"," ",".">>)
    /\ TargetsOf(meaning) = { <<"B"," ">> }
    /\ <<"B">> \in DOMAIN glosses
    /\ deeper = <<>>

\* "of B.(" : the text is cut at the parenthesis after the punctuation
\* was trimmed, and the target keeps the full stop
C27_TrailingStop ==
    /\ op = "getDeeperGlosses"
    /\ meaning = RefTo(<<"B",".","(">>)
    /\ TargetsOf(meaning) = { <<"B",".">> }
    /\ <<"B">> \in DOMAIN glosses
    /\ deeper = <<>>

(***************************************************************************)
(* The details of a word: generateGlossText, recursive and unrolled        *)
(***************************************************************************)
\* fmt.Sprintf(f, args...): the format and its arguments
Sprintf(f, args) == [f |-> f, args |-> args]

\* getDeeperGlosses' formats for its level
glossFormat(level) ==
    IF level = 1
    THEN "[lightgray]  ~> %s (%s)[white]\n"
    ELSE "[gray]         ~> %s (%s)[white]\n"

meaningFormat(level) ==
    IF level = 1
    THEN "[lightgray]      - %s[white]\n"
    ELSE "[gray]            - %s[white]\n"

\* builder.String(): what the lines getDeeperGlosses wrote read as
BuilderString(lines) ==
    [i \in 1..Len(lines) |->
        IF lines[i].fmt = "gloss"
        THEN Sprintf(glossFormat(lines[i].level), <<lines[i].a, lines[i].b>>)
        ELSE Sprintf(meaningFormat(lines[i].level), <<lines[i].a>>)]

\* the concatenation of the strings of q
RECURSIVE Flat(_)
Flat(q) == IF q = <<>> THEN <<>> ELSE Head(q) \o Flat(Tail(q))

\* `for i, gloss := range glossSlice` with its inner range over the
\* meanings; level is the level handed to getDeeperGlosses
glossSliceText(gs, g, level) ==
    Flat([i \in 1..Len(gs) |->
        (IF i > 1 THEN <<Sprintf("\n", <<>>)>> ELSE <<>>)
        \o <<Sprintf("[white]%s [yellow](%s)[white]\n\n", <<gs[i].Word, gs[i].Pos>>)>>
        \o Flat([k \in 1..Len(gs[i].Meanings) |->
               <<Sprintf("- %s\n", <<gs[i].Meanings[k]>>)>>
               \o BuilderString(getDeeperGlosses(gs[i].Meanings[k], g, level))])])

\* generateGlossText that starts the expansion at level 2
generateGlossTextFromLevel2(w, g) ==
    IF w \in DOMAIN g
    THEN glossSliceText(g[w], g, 2)
    ELSE <<Sprintf("%s\n\nNo gloss available.", <<w>>)>>

\* generateGlossText of part_004, lines 354-383
generateGlossText(w, g) ==
    IF w \in DOMAIN g
    THEN glossSliceText(g[w], g, 1)
    ELSE <<Sprintf("%s\n\nNo gloss available.", <<w>>)>>

\* the target clean-up written out in the unrolled renderer
unrolledTarget(mng, prefix) ==
    LET t0 == TrimRight(TrimSpace(TrimPrefix(mng, prefix)), Punctuation)
        t1 == IF Index(t0, "(") # -1 THEN TrimSpace(Take(t0, Index(t0, "("))) ELSE t0
        t2 == IF Index(t1, ";") # -1 THEN TrimSpace(Take(t1, Index(t1, ";"))) ELSE t1
    IN  t2

\* "Second-level deep lookup" of the unrolled renderer, for the meaning tm
secondLevelDeepLookup(tm, g) ==
    LET r == findLongestPrefix(deeperPrefixMap, tm)
    IN  IF ~r.ok THEN <<>>
        ELSE LET target2 == unrolledTarget(tm, r.prefix)
             IN  IF target2 \notin DOMAIN g THEN <<>>
                 ELSE Flat([i \in 1..Len(g[target2]) |->
                        <<Sprintf("[gray]         ~> %s (%s)[white]\n",
                                  <<g[target2][i].Word, g[target2][i].Pos>>)>>
                        \o [k \in 1..Len(g[target2][i].Meanings) |->
                              Sprintf("[gray]            - %s[white]\n",
                                      <<g[target2][i].Meanings[k]>>)]])

\* "First-level deep lookup" of the unrolled renderer, for the meaning mng
firstLevelDeepLookup(mng, g) ==
    LET r == findLongestPrefix(deeperPrefixMap, mng)
    IN  IF ~r.ok THEN <<>>
        ELSE LET target == unrolledTarget(mng, r.prefix)
             IN  IF target \notin DOMAIN g THEN <<>>
                 ELSE Flat([i \in 1..Len(g[target]) |->
                        <<Sprintf("[lightgray]  ~> %s (%s)[white]\n",
                                  <<g[target][i].Word, g[target][i].Pos>>)>>
                        \o Flat([k \in 1..Len(g[target][i].Meanings) |->
                              <<Sprintf("[lightgray]      - %s[white]\n",
                                        <<g[target][i].Meanings[k]>>)>>
                              \o secondLevelDeepLookup(g[target][i].Meanings[k], g)])])

\* generateGlossText of part_004, lines 1655-1720
generateGlossTextUnrolled(w, g) ==
    IF w \in DOMAIN g
    THEN Flat([i \in 1..Len(g[w]) |->
            (IF i > 1 THEN <<Sprintf("\n", <<>>)>> ELSE <<>>)
            \o <<Sprintf("[white]%s [yellow](%s)[white]\n\n", <<g[w][i].Word, g[w][i].Pos>>)>>
            \o Flat([k \in 1..Len(g[w][i].Meanings) |->
                   <<Sprintf("- %s\n", <<g[w][i].Meanings[k]>>)>>
                   \o firstLevelDeepLookup(g[w][i].Meanings[k], g)])])
    ELSE <<Sprintf("%s\n\nNo gloss available.", <<w>>)>>

\* the words whose details are asked for: the headwords and a word the
\* store does not hold
ShownWords == TargetHeads \cup { <<"Z">> }

\* main has loaded the store and built the phrase keys; a word is selected
InitDetails ==
    /\ glosses \in { loadGlosses(recs) : recs \in GlossFiles \cup RenderFiles }
    /\ mainText \in ShownWords
    /\ formatted = <<>>
    /\ meaning = <<>>
    /\ deeper = <<>>
    /\ phrases \in { <<>>, <<Of>>, <<DiminutiveOf, Of>> }
    /\ deeperPrefixMap = PrefixMapOf(phrases)
    /\ deeperPrefixLengths = PrefixLengthsOf(phrases)
    /\ s = <<>>
    /\ found = [prefix |-> <<>>, ok |-> FALSE]
    /\ op = "initDeeperPrefixes"
    /\ words = <<>> /\ IndexIdle
    /\ count = -1
    /\ stack = <<>>
    /\ glossesJsonl = <<>>
    /\ readers = <<>>
    /\ ToolIdle
    /\ UiIdle

\* the list's changed handler: glossText := generateGlossText(word, glosses)
DoGenerateGlossText ==
    /\ op = "initDeeperPrefixes"
    /\ formatted' = generateGlossText(mainText, glosses)
    /\ op' = "generateGlossText"
    /\ UNCHANGED <<mainText, indexVars, matcherVars, expanderVars, count, stack,
                   glossesJsonl, readers, toolVars, uiVars>>

NextDetails == DoGenerateGlossText

SpecDetails == InitDetails /\ [][NextDetails]_vars

\* C28: for every store, phrase set and word, the text that
\* generateGlossText builds with getDeeperGlosses at level 1 is, piece by
\* piece, the text that the unrolled two-level renderer builds.
C28_RecursiveEqualsUnrolled ==
    op = "generateGlossText" =>
        formatted = generateGlossTextUnrolled(mainText, glosses)

\* C28 witness: A is shown on the chain A -> B -> C -> D: the text holds
\* the entry of A, B at the first level, C at the second, and stops there.
C28_Witness ==
    /\ op = "generateGlossText"
    /\ glosses = loadGlosses(Chain)
    /\ mainText = <<"A">>
    /\ Len(formatted) = 6
    /\ formatted[5] = Sprintf("[gray]         ~> %s (%s)[white]\n", <<<<"C">>, "n">>)
    /\ formatted[6] = Sprintf("[gray]            - %s[white]\n", <<RefTo(<<"D">>)>>)

(***************************************************************************)
(* C29, C30: the length of the result and the place of the prefix in it    *)
(***************************************************************************)
\* C29: for a non-empty prefix that N inserted headwords share, FindWords
\* returns exactly min(50, N) entries and no entry twice; for N = 50 and
\* for every N > 50 the result has 50 entries.
C29_LengthIsMinOfCapAndN ==
    (op = "FindWords" /\ text # <<>>) =>
        /\ Len(matches) = Min(TRIE_MAX_SEARCH_DEPTH, Cardinality(Sharing(text)))
        /\ NoRepeat(matches)

\* C29 witness: two headwords more than the cap share the prefix, and the
\* result holds 50 different entries.
C29_Witness ==
    /\ op = "FindWords" /\ text # <<>>
    /\ Cardinality(Sharing(text)) = TRIE_MAX_SEARCH_DEPTH + 2
    /\ Len(matches) = TRIE_MAX_SEARCH_DEPTH
    /\ NoRepeat(matches)

\* C29 witness below the cap: 49 headwords share the prefix and all 49 are
\* returned.
C29_BelowCapWitness ==
    /\ op = "FindWords" /\ text # <<>>
    /\ Cardinality(Sharing(text)) = TRIE_MAX_SEARCH_DEPTH - 1
    /\ Len(matches) = TRIE_MAX_SEARCH_DEPTH - 1

\* C30: for an inserted headword W, FindWords(W) returns W first, however
\* many longer headwords start with W: the cap never keeps W out of
\* FindWords(W).
C30_HeadwordFirst ==
    (op = "FindWords" /\ text \in Inserted) =>
        /\ matches # <<>>
        /\ matches[1] = text

\* C30 witness: W is a headword that more than 50 headwords start with,
\* the result is cut at 50 and W is its first entry.
C30_Witness ==
    /\ op = "FindWords"
    /\ text \in Inserted
    /\ Cardinality(Sharing(text) \ {text}) >= TRIE_MAX_SEARCH_DEPTH
    /\ Len(matches) = TRIE_MAX_SEARCH_DEPTH
    /\ matches[1] = text

====
